---- MODULE Spec2Model ----
(***************************************************************************)
(* TinyBF: a transpiler from a small imperative language to Brainfuck and  *)
(* the Brainfuck interpreter that runs its output.                         *)
(*                                                                         *)
(* The code generator (tinybf/transpiler.py) is modelled as operators on   *)
(* the CodeGenState record; the interpreter (tinybf/bf_interpreter.py) is  *)
(* modelled as a state machine that executes one instruction per step.     *)
(* Brainfuck code is a sequence of one-character strings.                  *)
(***************************************************************************)
EXTENDS Integers, Sequences, FiniteSets, TLC

(***************************************************************************)
(* AST nodes (transpiler.py, "AST Nodes")                                  *)
(***************************************************************************)
NumberLiteral(value) == [kind |-> "NumberLiteral", value |-> value, name |-> ""]

CharLiteral(value) == [kind |-> "CharLiteral", value |-> value, name |-> ""]

Identifier(name) == [kind |-> "Identifier", value |-> 0, name |-> name]

Let(name, var_type, value) ==
  [kind |-> "Let", name |-> name, var_type |-> var_type, expr |-> value]

Set(name, expr) == [kind |-> "Set", name |-> name, expr |-> expr]

Add(name, expr) == [kind |-> "Add", name |-> name, expr |-> expr]

Sub(name, expr) == [kind |-> "Sub", name |-> name, expr |-> expr]

Mul(name, expr) == [kind |-> "Mul", name |-> name, expr |-> expr]

Div(name, expr) == [kind |-> "Div", name |-> name, expr |-> expr]

PrintChar(name) == [kind |-> "PrintChar", name |-> name]

PrintNum(name) == [kind |-> "PrintNum", name |-> name]

PrintDec(name) == [kind |-> "PrintDec", name |-> name]

InputChar(name) == [kind |-> "InputChar", name |-> name]

InputNum(name) == [kind |-> "InputNum", name |-> name]

\* false_block = << >> stands for both "no else" and an empty else block:
\* _emit_if tests `if stmt.false_block`, which is false for None and for [].
If(condition, true_block, false_block) ==
  [kind |-> "If", condition |-> condition,
   true_block |-> true_block, false_block |-> false_block]

For(name, start, end, body) ==
  [kind |-> "For", name |-> name, start |-> start, end |-> end, body |-> body]

NUM == "num"

CHAR == "char"

(***************************************************************************)
(* Code-generation state and the emit helpers                              *)
(***************************************************************************)
Repeat(ch, n) == [i \in 1..n |-> ch]

\* The state a sequence of emitter calls ends in: `states` lists the state
\* after each call, in program order.
last(states) == states[Len(states)]

\* CodeGenState as transpile constructs it; `error` is "" until an exception
\* (SemanticError) is raised, after which nothing more is emitted.
CodeGenState ==
  [output |-> << >>, cell_map |-> << >>, var_types |-> << >>,
   pointer |-> 0, temp_a |-> 1, temp_b |-> 2, next_cell |-> 3, error |-> ""]

\* state.output.append(chars)
append(state, chars) == [state EXCEPT !.output = @ \o chars]

raise(state, kind) == [state EXCEPT !.error = kind]

\* Faulty variant: a move to the left is emitted and not recorded.
_move_to_unrecorded(cell, state) ==
  LET delta == cell - state.pointer
  IN  [state EXCEPT
         !.output = IF delta > 0 THEN @ \o Repeat(">", delta)
                    ELSE IF delta < 0 THEN @ \o Repeat("<", -delta)
                    ELSE @,
         !.pointer = IF delta < 0 THEN @ ELSE cell]

_move_to(cell, state) ==
  LET delta == cell - state.pointer
  IN  [state EXCEPT
         !.output = IF delta > 0 THEN @ \o Repeat(">", delta)
                    ELSE IF delta < 0 THEN @ \o Repeat("<", -delta)
                    ELSE @,
         !.pointer = cell]

\* Faulty variant: the clear loop is left open.
_zero_current_unclosed(state) == append(state, <<"[", "-">>)

_zero_current(state) == append(state, <<"[", "-", "]">>)

_zero_cell(cell, state) == _zero_current(_move_to(cell, state))

\* Returns the chosen cell and the state (next_cell grows only when both
\* reserved temporaries are excluded).
_get_scratch_cell(state, exclude) ==
  IF state.temp_a \notin exclude THEN [cell |-> state.temp_a, state |-> state]
  ELSE IF state.temp_b \notin exclude THEN [cell |-> state.temp_b, state |-> state]
  ELSE [cell |-> state.next_cell,
        state |-> [state EXCEPT !.next_cell = @ + 1]]

\* Faulty variant: the cell is handed out and next_cell does not move.
_allocate_cell_unreserved(state) == [cell |-> state.next_cell, state |-> state]

_allocate_cell(state) ==
  [cell |-> state.next_cell, state |-> [state EXCEPT !.next_cell = @ + 1]]

RECURSIVE self(_, _)

\* The local variables of a method are kept in a frame: the generator state
\* under "state" and every local cell under its name.  A method is written as
\* a sequence of blocks, each mapping the frame before it to the frame after.
frame(state) == [state |-> state]

\* name = self._allocate_cell(state)
allocate(f, name) ==
  LET a == self("_allocate_cell", <<f.state>>)
  IN  (name :> a.cell) @@ [f EXCEPT !.state = a.state]

\* name = self._get_scratch_cell(state, exclude=exclude)
scratch(f, name, exclude) ==
  LET g == self("_get_scratch_cell", <<f.state, exclude>>)
  IN  (name :> g.cell) @@ [f EXCEPT !.state = g.state]

_emit_intro(state) ==
  LET s1 == self("_zero_current", <<self("_move_to", <<state.temp_a, state>>)>>)
      s2 == self("_zero_current", <<self("_move_to", <<state.temp_b, s1>>)>>)
  IN  self("_move_to", <<0, s2>>)

_emit_linear_increment(cell, amount, state) ==
  IF amount = 0 THEN state
  ELSE LET s1 == self("_move_to", <<cell, state>>)
       IN  IF amount > 0 THEN append(s1, Repeat("+", amount))
           ELSE append(s1, Repeat("-", -amount))

Min(a, b) == IF a < b THEN a ELSE b

Abs(a) == IF a < 0 THEN -a ELSE a

NoPattern == [found |-> FALSE, cost |-> 0, loop_count |-> 0, step |-> 0, remainder |-> 0]

\* The for-loop of _select_scaled_increment over range(2, max_loops + 1): the
\* loop counts tried are those before the first one whose step is 0, and
\* `best` is replaced only by a strictly smaller cost, so the first loop
\* count of least cost is the one kept.
select_scan(max_loops, magnitude, distance) ==
  LET step(c) == magnitude \div c
      remainder(c) == magnitude - c * step(c)
      cost(c) == c + step(c) + remainder(c) + 4 * distance + 5
      tried == {c \in 2..max_loops : \A d \in 2..c : step(d) # 0}
      kept(c) == \A d \in tried : cost(c) < cost(d) \/ (cost(c) = cost(d) /\ c <= d)
      pattern(c) ==
        [found |-> TRUE, cost |-> cost(c), loop_count |-> c, step |-> step(c),
         remainder |-> remainder(c)]
  IN  IF tried = {} THEN NoPattern ELSE pattern(CHOOSE c \in tried : kept(c))

\* Faulty variant: the remainder of the chosen pattern is dropped.
_select_scaled_increment_no_remainder(magnitude, distance) ==
  IF magnitude <= 0 THEN NoPattern
  ELSE LET best == select_scan(Min(16, magnitude), magnitude, distance)
       IN  IF ~best.found \/ best.cost >= magnitude THEN NoPattern
           ELSE [best EXCEPT !.remainder = 0]

\* Faulty variant: the pattern is returned whatever its cost.
_select_scaled_increment_at_any_cost(magnitude, distance) ==
  IF magnitude <= 0 THEN NoPattern
  ELSE select_scan(Min(16, magnitude), magnitude, distance)

_select_scaled_increment(magnitude, distance) ==
  IF magnitude <= 0 THEN NoPattern
  ELSE LET best == select_scan(Min(16, magnitude), magnitude, distance)
       IN  IF ~best.found \/ best.cost >= magnitude THEN NoPattern ELSE best

\* Returns [done, state]: done = TRUE when the scaled loop was emitted.
_try_scaled_increment(cell, magnitude, state, subtract) ==
  LET emit(f) ==
        LET distance == Abs(cell - f.scratch)
            pattern(d) == self("_select_scaled_increment", <<magnitude, d>>)
            scaled(p) ==
              LET step(s) ==
                    IF p.step # 0
                    THEN append(s, Repeat(IF subtract THEN "-" ELSE "+", p.step))
                    ELSE s
                  rest(s) ==
                    IF p.remainder # 0
                    THEN self("_emit_linear_increment",
                              <<cell, IF subtract THEN -p.remainder ELSE p.remainder, s>>)
                    ELSE s
                  s1 == self("_zero_cell", <<f.scratch, f.state>>)
                  s2 == self("_emit_linear_increment", <<f.scratch, p.loop_count, s1>>)
                  s3 == append(self("_move_to", <<f.scratch, s2>>), <<"[", "-">>)
                  s4 == self("_move_to", <<cell, s3>>)
                  s5 == step(s4)
                  s6 == append(self("_move_to", <<f.scratch, s5>>), <<"]">>)
                  s7 == self("_move_to", <<cell, s6>>)
                  s8 == rest(s7)
              IN  IF ~p.found THEN [done |-> FALSE, state |-> f.state]
                  ELSE last(<<s1, s2, s3, s4, s5, s6, s7, s8,
                              [done |-> TRUE, state |-> s8]>>)
        IN  IF distance = 0 THEN [done |-> FALSE, state |-> f.state]
            ELSE scaled(pattern(distance))
      emitted(f) == last(<<f, emit(f)>>)
  IN  emitted(scratch(frame(state), "scratch", {cell}))

_increment_cell(cell, amount, state) ==
  IF amount = 0 THEN state
  ELSE LET t == self("_try_scaled_increment", <<cell, Abs(amount), state, amount < 0>>)
       IN  IF t.done THEN t.state
           ELSE self("_emit_linear_increment", <<cell, amount, t.state>>)

_set_cell(cell, value, state) ==
  LET s1 == self("_zero_cell", <<cell, state>>)
  IN  IF value > 0 THEN self("_increment_cell", <<cell, value, s1>>) ELSE s1

\* Faulty variant: the source is moved to target and temp and not restored.
_copy_cell_moving(source, target, state) ==
  IF source = target THEN state
  ELSE LET g == self("_get_scratch_cell", <<state, {source, target}>>)
           temp == g.cell
           s1 == self("_zero_cell", <<temp, g.state>>)
           s2 == self("_zero_cell", <<target, s1>>)
           s3 == append(self("_move_to", <<source, s2>>), <<"[", "-">>)
           s4 == append(self("_move_to", <<target, s3>>), <<"+">>)
           s5 == append(self("_move_to", <<temp, s4>>), <<"+">>)
           s6 == append(self("_move_to", <<source, s5>>), <<"]">>)
       IN  last(<<s1, s2, s3, s4, s5, s6, self("_move_to", <<0, s6>>)>>)

\* target := source, source preserved: at source `[ - target+ temp+ ]`, then
\* source is restored from temp.
_copy_cell(source, target, state) ==
  IF source = target THEN state
  ELSE LET g == self("_get_scratch_cell", <<state, {source, target}>>)
           temp == g.cell
           s1 == self("_zero_cell", <<temp, g.state>>)
           s2 == self("_zero_cell", <<target, s1>>)
           s3 == append(self("_move_to", <<source, s2>>), <<"[", "-">>)
           s4 == append(self("_move_to", <<target, s3>>), <<"+">>)
           s5 == append(self("_move_to", <<temp, s4>>), <<"+">>)
           s6 == append(self("_move_to", <<source, s5>>), <<"]">>)
           s7 == append(self("_move_to", <<temp, s6>>), <<"[", "-">>)
           s8 == append(self("_move_to", <<source, s7>>), <<"+">>)
           s9 == append(self("_move_to", <<temp, s8>>), <<"]">>)
       IN  last(<<s1, s2, s3, s4, s5, s6, s7, s8, s9,
                  self("_move_to", <<0, s9>>)>>)

\* Faulty variant: the source is not restored from temp, which keeps its
\* value.
_transfer_add_moving(source, target, state) ==
  LET g == self("_get_scratch_cell", <<state, {source, target}>>)
      temp == g.cell
      s1 == self("_zero_cell", <<temp, g.state>>)
      s3 == append(self("_move_to", <<source, s1>>), <<"[", "-">>)
      s4 == append(self("_move_to", <<target, s3>>), <<"+">>)
      s5 == append(self("_move_to", <<temp, s4>>), <<"+">>)
      s6 == append(self("_move_to", <<source, s5>>), <<"]">>)
  IN  last(<<s1, s3, s4, s5, s6, self("_move_to", <<0, s6>>)>>)

_transfer_add(source, target, state) ==
  LET g == self("_get_scratch_cell", <<state, {source, target}>>)
      temp == g.cell
      s1 == self("_zero_cell", <<temp, g.state>>)
      s3 == append(self("_move_to", <<source, s1>>), <<"[", "-">>)
      s4 == append(self("_move_to", <<target, s3>>), <<"+">>)
      s5 == append(self("_move_to", <<temp, s4>>), <<"+">>)
      s6 == append(self("_move_to", <<source, s5>>), <<"]">>)
      s7 == append(self("_move_to", <<temp, s6>>), <<"[", "-">>)
      s8 == append(self("_move_to", <<source, s7>>), <<"+">>)
      s9 == append(self("_move_to", <<temp, s8>>), <<"]">>)
  IN  last(<<s1, s3, s4, s5, s6, s7, s8, s9,
             self("_move_to", <<0, s9>>)>>)

_transfer_subtract(source, target, state) ==
  LET g == self("_get_scratch_cell", <<state, {source, target}>>)
      temp == g.cell
      s1 == self("_zero_cell", <<temp, g.state>>)
      s3 == append(self("_move_to", <<source, s1>>), <<"[", "-">>)
      s4 == append(self("_move_to", <<target, s3>>), <<"-">>)
      s5 == append(self("_move_to", <<temp, s4>>), <<"+">>)
      s6 == append(self("_move_to", <<source, s5>>), <<"]">>)
      s7 == append(self("_move_to", <<temp, s6>>), <<"[", "-">>)
      s8 == append(self("_move_to", <<source, s7>>), <<"+">>)
      s9 == append(self("_move_to", <<temp, s8>>), <<"]">>)
  IN  last(<<s1, s3, s4, s5, s6, s7, s8, s9,
             self("_move_to", <<0, s9>>)>>)

\* Faulty variant: the flag is cleared instead of set before the test.
_is_zero_flag_clear(cell, flag, state) ==
  LET a == self("_allocate_cell", <<state>>)
      temp == a.cell
      s1 == self("_zero_cell", <<flag, a.state>>)
      s2 == self("_zero_cell", <<temp, s1>>)
      s3 == self("_copy_cell", <<cell, temp, s2>>)
      s4 == append(self("_move_to", <<temp, s3>>), <<"[">>)
      s5 == append(self("_move_to", <<temp, s4>>), <<"-">>)
      s6 == append(self("_move_to", <<flag, s5>>), <<"[", "-", "]">>)
      s7 == append(self("_move_to", <<temp, s6>>), <<"]">>)
      s8 == self("_zero_cell", <<temp, s7>>)
  IN  last(<<s1, s2, s3, s4, s5, s6, s7, s8,
             self("_move_to", <<0, s8>>)>>)

_is_zero(cell, flag, state) ==
  LET a == self("_allocate_cell", <<state>>)
      temp == a.cell
      s1 == self("_set_cell", <<flag, 1, a.state>>)
      s2 == self("_zero_cell", <<temp, s1>>)
      s3 == self("_copy_cell", <<cell, temp, s2>>)
      s4 == append(self("_move_to", <<temp, s3>>), <<"[">>)
      s5 == append(self("_move_to", <<temp, s4>>), <<"-">>)
      s6 == append(self("_move_to", <<flag, s5>>), <<"[", "-", "]">>)
      s7 == append(self("_move_to", <<temp, s6>>), <<"]">>)
      s8 == self("_zero_cell", <<temp, s7>>)
  IN  last(<<s1, s2, s3, s4, s5, s6, s7, s8,
             self("_move_to", <<0, s8>>)>>)

_subtract_divisor_if_possible(remainder, divisor, success_flag, state) ==
  LET locals(f) ==
        LET f1 == allocate(f, "remainder_backup")
            f2 == allocate(f1, "divisor_copy")
            f3 == allocate(f2, "zero_flag")
            f4 == allocate(f3, "temp_flag")
        IN  last(<<f1, f2, f3, f4, allocate(f4, "failure_flag")>>)
      prepare(f) ==
        LET s1 == self("_set_cell", <<success_flag, 1, f.state>>)
            s2 == self("_zero_cell", <<f.failure_flag, s1>>)
            s3 == self("_zero_cell", <<f.remainder_backup, s2>>)
            s4 == self("_copy_cell", <<remainder, f.remainder_backup, s3>>)
            s5 == self("_zero_cell", <<f.divisor_copy, s4>>)
            s6 == self("_copy_cell", <<divisor, f.divisor_copy, s5>>)
        IN  [f EXCEPT !.state = last(<<s1, s2, s3, s4, s5, s6>>)]
      \* while divisor_copy: decrement it, test remainder for zero
      test(f) ==
        LET s7 == append(self("_move_to", <<f.divisor_copy, f.state>>), <<"[">>)
            s8 == append(self("_move_to", <<f.divisor_copy, s7>>), <<"-">>)
            s9 == self("_is_zero", <<remainder, f.zero_flag, s8>>)
            s10 == append(self("_move_to", <<f.zero_flag, s9>>), <<"[">>)
            s11 == append(self("_move_to", <<f.zero_flag, s10>>), <<"-">>)
            s12 == self("_zero_cell", <<success_flag, s11>>)
            s13 == self("_set_cell", <<f.failure_flag, 1, s12>>)
            s14 == append(self("_move_to", <<f.divisor_copy, s13>>), <<"[", "-", "]">>)
            s15 == append(self("_move_to", <<f.zero_flag, s14>>), <<"]">>)
            s16 == self("_zero_cell", <<f.zero_flag, s15>>)
        IN  [f EXCEPT !.state = last(<<s7, s8, s9, s10, s11, s12, s13, s14, s15, s16>>)]
      \* if still successful: remainder -= 1
      decrement(f) ==
        LET s17 == self("_zero_cell", <<f.temp_flag, f.state>>)
            s18 == self("_copy_cell", <<success_flag, f.temp_flag, s17>>)
            s19 == append(self("_move_to", <<f.temp_flag, s18>>), <<"[">>)
            s20 == append(self("_move_to", <<f.temp_flag, s19>>), <<"-">>)
            s21 == append(self("_move_to", <<remainder, s20>>), <<"-">>)
            s22 == append(self("_move_to", <<f.temp_flag, s21>>), <<"]">>)
            s23 == self("_zero_cell", <<f.temp_flag, s22>>)
            s24 == append(self("_move_to", <<f.divisor_copy, s23>>), <<"]">>)
        IN  [f EXCEPT !.state = last(<<s17, s18, s19, s20, s21, s22, s23, s24>>)]
      \* on failure: restore remainder from the backup
      restore(f) ==
        LET s25 == append(self("_move_to", <<f.failure_flag, f.state>>), <<"[">>)
            s26 == append(self("_move_to", <<f.failure_flag, s25>>), <<"-">>)
            s27 == self("_zero_cell", <<remainder, s26>>)
            s28 == self("_copy_cell", <<f.remainder_backup, remainder, s27>>)
            s29 == append(self("_move_to", <<f.failure_flag, s28>>), <<"]">>)
            s30 == self("_zero_cell", <<f.remainder_backup, s29>>)
            s31 == self("_zero_cell", <<f.divisor_copy, s30>>)
            s32 == self("_zero_cell", <<f.zero_flag, s31>>)
            s33 == self("_zero_cell", <<f.temp_flag, s32>>)
            s34 == self("_zero_cell", <<f.failure_flag, s33>>)
        IN  last(<<s25, s26, s27, s28, s29, s30, s31, s32, s33, s34,
                   self("_move_to", <<0, s34>>)>>)
      emitted(f) ==
        LET f1 == locals(f)
            f2 == prepare(f1)
            f3 == test(f2)
            f4 == decrement(f3)
        IN  last(<<f1, f2, f3, f4, restore(f4)>>)
  IN  emitted(frame(state))

\* Faulty variant: the target is not cleared before the products are added.
_multiply_literal_keep_target(target_cell, literal, state) ==
  IF literal = 0 THEN self("_move_to", <<0, self("_zero_cell", <<target_cell, state>>)>>)
  ELSE IF literal = 1 THEN self("_move_to", <<0, state>>)
  ELSE LET a == self("_allocate_cell", <<state>>)
           source_copy == a.cell
           s1 == self("_zero_cell", <<source_copy, a.state>>)
           s2 == self("_copy_cell", <<target_cell, source_copy, s1>>)
           s4 == append(self("_move_to", <<source_copy, s2>>), <<"[">>)
           s5 == append(self("_move_to", <<source_copy, s4>>), <<"-">>)
           s6 == self("_increment_cell", <<target_cell, literal, s5>>)
           s7 == append(self("_move_to", <<source_copy, s6>>), <<"]">>)
           s8 == self("_zero_cell", <<source_copy, s7>>)
       IN  last(<<s1, s2, s4, s5, s6, s7, s8,
                  self("_move_to", <<0, s8>>)>>)

_multiply_literal(target_cell, literal, state) ==
  IF literal = 0 THEN self("_move_to", <<0, self("_zero_cell", <<target_cell, state>>)>>)
  ELSE IF literal = 1 THEN self("_move_to", <<0, state>>)
  ELSE LET a == self("_allocate_cell", <<state>>)
           source_copy == a.cell
           s1 == self("_zero_cell", <<source_copy, a.state>>)
           s2 == self("_copy_cell", <<target_cell, source_copy, s1>>)
           s3 == self("_zero_cell", <<target_cell, s2>>)
           s4 == append(self("_move_to", <<source_copy, s3>>), <<"[">>)
           s5 == append(self("_move_to", <<source_copy, s4>>), <<"-">>)
           s6 == self("_increment_cell", <<target_cell, literal, s5>>)
           s7 == append(self("_move_to", <<source_copy, s6>>), <<"]">>)
           s8 == self("_zero_cell", <<source_copy, s7>>)
       IN  last(<<s1, s2, s3, s4, s5, s6, s7, s8,
                  self("_move_to", <<0, s8>>)>>)

_multiply_cell(target_cell, operand_cell, state) ==
  LET a1 == self("_allocate_cell", <<state>>)
      multiplicand == a1.cell
      a2 == self("_allocate_cell", <<a1.state>>)
      multiplier == a2.cell
      s1 == self("_zero_cell", <<multiplicand, a2.state>>)
      s2 == self("_copy_cell", <<target_cell, multiplicand, s1>>)
      s3 == self("_zero_cell", <<multiplier, s2>>)
      s4 == self("_copy_cell", <<operand_cell, multiplier, s3>>)
      s5 == self("_zero_cell", <<target_cell, s4>>)
      s6 == append(self("_move_to", <<multiplier, s5>>), <<"[">>)
      s7 == append(self("_move_to", <<multiplier, s6>>), <<"-">>)
      s8 == self("_transfer_add", <<multiplicand, target_cell, s7>>)
      s9 == append(self("_move_to", <<multiplier, s8>>), <<"]">>)
      s10 == self("_zero_cell", <<multiplier, s9>>)
      s11 == self("_zero_cell", <<multiplicand, s10>>)
  IN  last(<<s1, s2, s3, s4, s5, s6, s7, s8, s9, s10, s11,
             self("_move_to", <<0, s11>>)>>)

_divide_cells(target_cell, divisor_cell, state) ==
  LET execute(f) ==
        [f EXCEPT !.state = self("_set_cell", <<f.execute_flag, 1, f.state>>)]
      \* zero-divisor guard: target := 0 and the division is skipped
      guard(f) ==
        LET s2 == self("_is_zero", <<divisor_cell, f.divisor_zero_flag, f.state>>)
            s3 == append(self("_move_to", <<f.divisor_zero_flag, s2>>), <<"[">>)
            s4 == append(self("_move_to", <<f.divisor_zero_flag, s3>>), <<"-">>)
            s5 == self("_zero_cell", <<target_cell, s4>>)
            s6 == append(self("_move_to", <<f.execute_flag, s5>>), <<"[", "-", "]">>)
            s7 == append(self("_move_to", <<f.divisor_zero_flag, s6>>), <<"]">>)
            s8 == self("_zero_cell", <<f.divisor_zero_flag, s7>>)
        IN  [f EXCEPT !.state = last(<<s2, s3, s4, s5, s6, s7, s8>>)]
      locals(f) ==
        LET f1 == allocate(f, "remainder_cell")
            f2 == allocate(f1, "success_flag")
        IN  last(<<f1, f2, allocate(f2, "loop_flag")>>)
      prepare(f) ==
        LET s9 == append(self("_move_to", <<f.execute_flag, f.state>>), <<"[">>)
            s10 == append(self("_move_to", <<f.execute_flag, s9>>), <<"-">>)
            s11 == self("_zero_cell", <<f.remainder_cell, s10>>)
            s12 == self("_copy_cell", <<target_cell, f.remainder_cell, s11>>)
            s13 == self("_zero_cell", <<target_cell, s12>>)
            s14 == self("_set_cell", <<f.loop_flag, 1, s13>>)
        IN  [f EXCEPT !.state = last(<<s9, s10, s11, s12, s13, s14>>)]
      loop(f) ==
        LET s15 == append(self("_move_to", <<f.loop_flag, f.state>>), <<"[">>)
            s16 == append(self("_move_to", <<f.loop_flag, s15>>), <<"-">>)
            s17 == self("_subtract_divisor_if_possible",
                        <<f.remainder_cell, divisor_cell, f.success_flag, s16>>)
            s18 == append(self("_move_to", <<f.success_flag, s17>>), <<"[">>)
            s19 == append(self("_move_to", <<f.success_flag, s18>>), <<"-">>)
            s20 == self("_increment_cell", <<target_cell, 1, s19>>)
            s21 == append(self("_move_to", <<f.loop_flag, s20>>), <<"+">>)
            s22 == append(self("_move_to", <<f.success_flag, s21>>), <<"]">>)
            s23 == append(self("_move_to", <<f.success_flag, s22>>), <<"[", "-", "]">>)
            s24 == append(self("_move_to", <<f.loop_flag, s23>>), <<"]">>)
        IN  [f EXCEPT !.state = last(<<s15, s16, s17, s18, s19, s20, s21, s22, s23, s24>>)]
      finish(f) ==
        LET s25 == self("_zero_cell", <<f.loop_flag, f.state>>)
            s26 == self("_zero_cell", <<f.remainder_cell, s25>>)
            s27 == self("_zero_cell", <<f.success_flag, s26>>)
            s28 == append(self("_move_to", <<f.execute_flag, s27>>), <<"[", "-", "]">>)
            s29 == append(self("_move_to", <<f.execute_flag, s28>>), <<"]">>)
            s30 == self("_zero_cell", <<f.execute_flag, s29>>)
        IN  last(<<s25, s26, s27, s28, s29, s30,
                   self("_move_to", <<0, s30>>)>>)
      emitted(f) ==
        LET f1 == execute(allocate(f, "execute_flag"))
            f2 == guard(allocate(f1, "divisor_zero_flag"))
            f3 == locals(f2)
            f4 == prepare(f3)
            f5 == loop(f4)
        IN  last(<<f1, f2, f3, f4, f5, finish(f5)>>)
  IN  emitted(frame(state))

\* The literal is never negative here: the parser only produces 0..255.
_divide_literal(target_cell, literal, state) ==
  IF literal < 0 THEN raise(state, "SemanticError")
  ELSE LET a == self("_allocate_cell", <<state>>)
           divisor_cell == a.cell
           s1 == self("_set_cell", <<divisor_cell, literal, a.state>>)
           s2 == self("_divide_cells", <<target_cell, divisor_cell, s1>>)
       IN  self("_zero_cell", <<divisor_cell, s2>>)

(***************************************************************************)
(* Variables and expressions                                               *)
(***************************************************************************)
declared(name, state) == name \in DOMAIN state.cell_map

\* Faulty variant: a variable may be declared again with any type.
_ensure_cell_any_type(name, var_type, state) ==
  IF declared(name, state)
  THEN [cell |-> state.cell_map[name], state |-> state]
  ELSE LET cell == state.next_cell
           s1 == [state EXCEPT !.next_cell = @ + 1,
                               !.cell_map = @ @@ (name :> cell),
                               !.var_types = @ @@ (name :> var_type)]
       IN  [cell |-> cell, state |-> self("_zero_cell", <<cell, s1>>)]

\* Returns [cell, state]; a re-declaration with another type raises.
_ensure_cell(name, var_type, state) ==
  IF declared(name, state)
  THEN IF state.var_types[name] # var_type
       THEN [cell |-> state.cell_map[name], state |-> raise(state, "SemanticError")]
       ELSE [cell |-> state.cell_map[name], state |-> state]
  ELSE LET cell == state.next_cell
           s1 == [state EXCEPT !.next_cell = @ + 1,
                               !.cell_map = @ @@ (name :> cell),
                               !.var_types = @ @@ (name :> var_type)]
       IN  [cell |-> cell, state |-> self("_zero_cell", <<cell, s1>>)]

\* "" when _get_var raises (the identifier is not declared).
_expr_type(expr, state) ==
  IF expr.kind = "NumberLiteral" THEN NUM
  ELSE IF expr.kind = "CharLiteral" THEN CHAR
  ELSE IF declared(expr.name, state) THEN state.var_types[expr.name]
  ELSE ""

\* Faulty variant: no early return when the source is the target itself.
_assign_expr_clear_first(target_cell, target_type, expr, state) ==
  LET expr_type == self("_expr_type", <<expr, state>>)
  IN  IF expr_type = "" THEN raise(state, "SemanticError")
      ELSE IF expr_type # target_type /\ ~({expr_type, target_type} \subseteq {NUM, CHAR})
      THEN raise(state, "SemanticError")
      ELSE IF expr.kind \in {"NumberLiteral", "CharLiteral"}
      THEN LET s1 == self("_zero_cell", <<target_cell, state>>)
               s2 == self("_increment_cell", <<target_cell, expr.value, s1>>)
           IN  self("_move_to", <<0, s2>>)
      ELSE LET source_cell == state.cell_map[expr.name]
               s1 == self("_zero_cell", <<target_cell, state>>)
               s2 == self("_copy_cell", <<source_cell, target_cell, s1>>)
           IN  self("_move_to", <<0, s2>>)

_assign_expr(target_cell, target_type, expr, state) ==
  LET expr_type == self("_expr_type", <<expr, state>>)
  IN  IF expr_type = "" THEN raise(state, "SemanticError")
      ELSE IF expr_type # target_type /\ ~({expr_type, target_type} \subseteq {NUM, CHAR})
      THEN raise(state, "SemanticError")
      ELSE IF expr.kind \in {"NumberLiteral", "CharLiteral"}
      THEN LET s1 == self("_zero_cell", <<target_cell, state>>)
               s2 == self("_increment_cell", <<target_cell, expr.value, s1>>)
           IN  self("_move_to", <<0, s2>>)
      ELSE LET source_cell == state.cell_map[expr.name]
           IN  IF source_cell = target_cell THEN self("_move_to", <<0, state>>)
               ELSE LET s1 == self("_zero_cell", <<target_cell, state>>)
                        s2 == self("_copy_cell", <<source_cell, target_cell, s1>>)
                    IN  self("_move_to", <<0, s2>>)

_add_expr(target_cell, expr, state, subtract) ==
  LET expr_type == self("_expr_type", <<expr, state>>)
  IN  IF expr_type \notin {NUM, CHAR} THEN raise(state, "SemanticError")
      ELSE IF expr.kind \in {"NumberLiteral", "CharLiteral"}
      THEN LET amount == IF subtract THEN -expr.value ELSE expr.value
           IN  self("_move_to", <<0, self("_increment_cell", <<target_cell, amount, state>>)>>)
      ELSE LET source_cell == state.cell_map[expr.name]
           IN  IF subtract
               THEN self("_move_to", <<0, self("_transfer_subtract", <<source_cell, target_cell, state>>)>>)
               ELSE self("_move_to", <<0, self("_transfer_add", <<source_cell, target_cell, state>>)>>)

_emit_print_num(cell, state) ==
  self("_move_to", <<0, append(self("_move_to", <<cell, state>>), <<".">>)>>)

\* Faulty variant: the digit is written without the offset of '0'.
_print_digit_no_offset(digit_cell, state) ==
  self("_move_to", <<0, append(self("_move_to", <<digit_cell, state>>), <<".">>)>>)

_print_digit(digit_cell, state) ==
  LET s1 == self("_increment_cell", <<digit_cell, 48, state>>)
      s2 == append(self("_move_to", <<digit_cell, s1>>), <<".">>)
      s3 == self("_increment_cell", <<digit_cell, -48, s2>>)
  IN  self("_move_to", <<0, s3>>)

_emit_print_dec(cell, state) ==
  LET work(f) ==
        LET s1 == self("_zero_cell", <<f.work, f.state>>)
            s2 == self("_copy_cell", <<cell, f.work, s1>>)
        IN  [f EXCEPT !.state = last(<<s1, s2>>)]
      hundreds(f) ==
        LET s1 == self("_zero_cell", <<f.hundreds, f.state>>)
            s2 == self("_copy_cell", <<f.work, f.hundreds, s1>>)
            s3 == self("_divide_literal", <<f.hundreds, 100, s2>>)
        IN  [f EXCEPT !.state = last(<<s1, s2, s3>>)]
      remainder(f) ==
        LET s1 == self("_zero_cell", <<f.remainder, f.state>>)
            s2 == self("_copy_cell", <<f.work, f.remainder, s1>>)
        IN  [f EXCEPT !.state = last(<<s1, s2>>)]
      \* remainder -= digit * weight, through the cell temp
      remove(f, digit, weight) ==
        LET s1 == self("_zero_cell", <<f.temp, f.state>>)
            s2 == self("_copy_cell", <<digit, f.temp, s1>>)
            s3 == self("_multiply_literal", <<f.temp, weight, s2>>)
            s4 == self("_transfer_subtract", <<f.temp, f.remainder, s3>>)
            s5 == self("_zero_cell", <<f.temp, s4>>)
        IN  [f EXCEPT !.state = last(<<s1, s2, s3, s4, s5>>)]
      remove_hundreds(f) == remove(f, f.hundreds, 100)
      tens(f) ==
        LET s1 == self("_zero_cell", <<f.tens, f.state>>)
            s2 == self("_copy_cell", <<f.remainder, f.tens, s1>>)
            s3 == self("_divide_literal", <<f.tens, 10, s2>>)
        IN  [f EXCEPT !.state = last(<<s1, s2, s3>>)]
      remove_tens(f) == remove(f, f.tens, 10)
      ones(f) == ("ones" :> f.remainder) @@ f
      printed_flag(f) ==
        [f EXCEPT !.state = self("_zero_cell", <<f.printed_flag, f.state>>)]
      \* hundreds digit, printed when non-zero
      print_hundreds(f) ==
        LET s1 == self("_zero_cell", <<f.hundreds_copy, f.state>>)
            s2 == self("_copy_cell", <<f.hundreds, f.hundreds_copy, s1>>)
            s3 == append(self("_move_to", <<f.hundreds_copy, s2>>), <<"[">>)
            s4 == append(self("_move_to", <<f.hundreds_copy, s3>>), <<"-">>)
            s5 == self("_print_digit", <<f.hundreds, s4>>)
            s6 == self("_set_cell", <<f.printed_flag, 1, s5>>)
            s7 == append(self("_move_to", <<f.hundreds_copy, s6>>), <<"[", "-", "]">>)
            s8 == append(self("_move_to", <<f.hundreds_copy, s7>>), <<"]">>)
            s9 == self("_zero_cell", <<f.hundreds_copy, s8>>)
        IN  [f EXCEPT !.state = last(<<s1, s2, s3, s4, s5, s6, s7, s8, s9>>)]
      \* tens digit, printed when non-zero or when hundreds was printed
      should_print_tens(f) ==
        LET s1 == self("_zero_cell", <<f.should_print_tens, f.state>>)
            s2 == self("_copy_cell", <<f.printed_flag, f.should_print_tens, s1>>)
        IN  [f EXCEPT !.state = last(<<s1, s2>>)]
      test_tens(f) ==
        LET s1 == self("_zero_cell", <<f.tens_copy, f.state>>)
            s2 == self("_copy_cell", <<f.tens, f.tens_copy, s1>>)
            s3 == append(self("_move_to", <<f.tens_copy, s2>>), <<"[">>)
            s4 == append(self("_move_to", <<f.tens_copy, s3>>), <<"-">>)
            s5 == self("_set_cell", <<f.should_print_tens, 1, s4>>)
            s6 == append(self("_move_to", <<f.tens_copy, s5>>), <<"[", "-", "]">>)
            s7 == append(self("_move_to", <<f.tens_copy, s6>>), <<"]">>)
            s8 == self("_zero_cell", <<f.tens_copy, s7>>)
        IN  [f EXCEPT !.state = last(<<s1, s2, s3, s4, s5, s6, s7, s8>>)]
      print_tens(f) ==
        LET s1 == append(self("_move_to", <<f.should_print_tens, f.state>>), <<"[">>)
            s2 == append(self("_move_to", <<f.should_print_tens, s1>>), <<"-">>)
            s3 == self("_print_digit", <<f.tens, s2>>)
            s4 == self("_set_cell", <<f.printed_flag, 1, s3>>)
            s5 == append(self("_move_to", <<f.should_print_tens, s4>>), <<"]">>)
            s6 == self("_zero_cell", <<f.should_print_tens, s5>>)
        IN  [f EXCEPT !.state = last(<<s1, s2, s3, s4, s5, s6>>)]
      \* ones digit, always printed
      print_ones(f) ==
        LET s1 == self("_print_digit", <<f.ones, f.state>>)
            s2 == self("_zero_cell", <<f.hundreds, s1>>)
            s3 == self("_zero_cell", <<f.tens, s2>>)
            s4 == self("_zero_cell", <<f.ones, s3>>)
            s5 == self("_zero_cell", <<f.work, s4>>)
            s6 == self("_zero_cell", <<f.printed_flag, s5>>)
        IN  last(<<s1, s2, s3, s4, s5, s6, self("_move_to", <<0, s6>>)>>)
      \* The blocks in program order.
      digits(f) ==
        LET f1 == work(allocate(f, "work"))
            f2 == hundreds(allocate(f1, "hundreds"))
            f3 == remainder(allocate(f2, "remainder"))
            f4 == remove_hundreds(allocate(f3, "temp"))
            f5 == tens(allocate(f4, "tens"))
            f6 == remove_tens(allocate(f5, "temp"))
        IN  last(<<f1, f2, f3, f4, f5, f6, ones(f6)>>)
      printing(f) ==
        LET f1 == printed_flag(allocate(f, "printed_flag"))
            f2 == print_hundreds(allocate(f1, "hundreds_copy"))
            f3 == should_print_tens(allocate(f2, "should_print_tens"))
            f4 == test_tens(allocate(f3, "tens_copy"))
            f5 == print_tens(f4)
        IN  last(<<f1, f2, f3, f4, f5, print_ones(f5)>>)
      emitted(f) == last(<<f, printing(f)>>)
  IN  emitted(digits(frame(state)))

(***************************************************************************)
(* Statement emitters                                                      *)
(***************************************************************************)
\* `for stmt in statements: self._emit_statement(stmt, state)`, from index i
\* on; an exception raised by a statement ends the loop.
RECURSIVE emit_statements(_, _, _)
emit_statements(statements, i, state) ==
  IF i > Len(statements) \/ state.error # "" THEN state
  ELSE emit_statements(statements, i + 1, self("_emit_statement", <<statements[i], state>>))

_emit_block(statements, state) ==
  LET s1 == emit_statements(statements, 1, state)
  IN  IF s1.error # "" THEN s1 ELSE self("_move_to", <<0, s1>>)

\* An exception raised in a block ends the method: the blocks after it leave
\* the frame as it is.
_emit_if(stmt, state) ==
  IF ~declared(stmt.condition, state) THEN raise(state, "SemanticError")
  ELSE
  LET condition_cell == state.cell_map[stmt.condition]
      cond_copy(f) == scratch(f, "cond_copy", {condition_cell})
      zero_flag(f) == scratch(f, "zero_flag", {condition_cell, f.cond_copy})
      prepare(f) ==
        LET s1 == self("_zero_cell", <<f.cond_copy, f.state>>)
            s2 == self("_zero_cell", <<f.zero_flag, s1>>)
            s3 == self("_copy_cell", <<condition_cell, f.cond_copy, s2>>)
            s4 == self("_increment_cell", <<f.zero_flag, 1, s3>>)
        IN  [f EXCEPT !.state = last(<<s1, s2, s3, s4>>)]
      \* true branch when condition non-zero
      true_branch(f) ==
        LET s5 == append(self("_move_to", <<f.cond_copy, f.state>>), <<"[", "-">>)
            s6 == append(self("_move_to", <<f.zero_flag, s5>>), <<"[", "-", "]">>)
            s7 == self("_emit_block", <<stmt.true_block, s6>>)
            s8 == append(self("_move_to", <<f.cond_copy, s7>>), <<"]">>)
        IN  [f EXCEPT !.state = last(<<s5, s6, s7, IF s7.error # "" THEN s7 ELSE s8>>)]
      \* else block runs if zero_flag remains 1
      false_branch(f) ==
        LET e1 == append(self("_move_to", <<f.zero_flag, f.state>>), <<"[", "-">>)
            e2 == self("_emit_block", <<stmt.false_block, e1>>)
            e3 == append(self("_move_to", <<f.zero_flag, e2>>), <<"]">>)
        IN  IF f.state.error # "" THEN f
            ELSE IF stmt.false_block # << >>
            THEN [f EXCEPT !.state = last(<<e1, e2, IF e2.error # "" THEN e2 ELSE e3>>)]
            ELSE [f EXCEPT !.state = self("_zero_cell", <<f.zero_flag, f.state>>)]
      clean_up(f) ==
        LET s10 == self("_zero_cell", <<f.cond_copy, f.state>>)
            s11 == self("_zero_cell", <<f.zero_flag, s10>>)
        IN  IF f.state.error # "" THEN f.state
            ELSE last(<<s10, s11, self("_move_to", <<0, s11>>)>>)
      emitted(f) ==
        LET f1 == cond_copy(f)
            f2 == zero_flag(f1)
            f3 == prepare(f2)
            f4 == true_branch(f3)
            f5 == false_branch(f4)
        IN  last(<<f1, f2, f3, f4, f5, clean_up(f5)>>)
  IN  emitted(frame(state))

\* Faulty variant: the start value is not subtracted from the counter.
_emit_for_count_to_end(stmt, state) ==
  IF ~declared(stmt.name, state) THEN raise(state, "SemanticError")
  ELSE IF state.var_types[stmt.name] # NUM THEN raise(state, "SemanticError")
  ELSE IF self("_expr_type", <<stmt.start, state>>) # NUM
          \/ self("_expr_type", <<stmt.end, state>>) # NUM
  THEN raise(state, "SemanticError")
  ELSE
  LET target_cell == state.cell_map[stmt.name]
      start(s) == self("_assign_expr", <<target_cell, NUM, stmt.start, s>>)
      loop(f) ==
        LET s2 == self("_assign_expr", <<f.iter_cell, NUM, stmt.end, f.state>>)
            s8 == append(self("_move_to", <<f.iter_cell, s2>>), <<"[", "-">>)
            s9 == self("_emit_block", <<stmt.body, s8>>)
            s10 == self("_increment_cell", <<target_cell, 1, s9>>)
            s11 == append(self("_move_to", <<f.iter_cell, s10>>), <<"]">>)
        IN  last(<<s2, s8, s9, s10, s11,
                   IF s9.error # "" THEN s9 ELSE self("_move_to", <<0, s11>>)>>)
      emitted(s) ==
        LET f1 == allocate(frame(s), "iter_cell")
            f2 == allocate(f1, "start_copy")
        IN  last(<<s, f1, f2, loop(f2)>>)
  IN  emitted(start(state))

_emit_for(stmt, state) ==
  IF ~declared(stmt.name, state) THEN raise(state, "SemanticError")
  ELSE IF state.var_types[stmt.name] # NUM THEN raise(state, "SemanticError")
  ELSE IF self("_expr_type", <<stmt.start, state>>) # NUM
          \/ self("_expr_type", <<stmt.end, state>>) # NUM
  THEN raise(state, "SemanticError")
  ELSE
  LET target_cell == state.cell_map[stmt.name]
      start(s) == self("_assign_expr", <<target_cell, NUM, stmt.start, s>>)
      \* iteration bookkeeping
      loop(f) ==
        LET s2 == self("_assign_expr", <<f.iter_cell, NUM, stmt.end, f.state>>)
            s3 == self("_zero_cell", <<f.start_copy, s2>>)
            s4 == self("_copy_cell", <<target_cell, f.start_copy, s3>>)
            s5 == append(self("_move_to", <<f.start_copy, s4>>), <<"[", "-">>)
            s6 == append(self("_move_to", <<f.iter_cell, s5>>), <<"-">>)
            s7 == append(self("_move_to", <<f.start_copy, s6>>), <<"]">>)
            \* iter_cell now holds (end - start)
            s8 == append(self("_move_to", <<f.iter_cell, s7>>), <<"[", "-">>)
            s9 == self("_emit_block", <<stmt.body, s8>>)
            s10 == self("_increment_cell", <<target_cell, 1, s9>>)
            s11 == append(self("_move_to", <<f.iter_cell, s10>>), <<"]">>)
        IN  last(<<s2, s3, s4, s5, s6, s7, s8, s9, s10, s11,
                   IF s9.error # "" THEN s9 ELSE self("_move_to", <<0, s11>>)>>)
      emitted(s) ==
        LET f1 == allocate(frame(s), "iter_cell")
            f2 == allocate(f1, "start_copy")
        IN  last(<<s, f1, f2, loop(f2)>>)
  IN  emitted(start(state))

\* The cell of stmt.name, used once the statement's checks have passed.
var_cell(stmt, state) == state.cell_map[stmt.name]

_emit_statement(stmt, state) ==
  IF stmt.kind = "Let"
  THEN LET e == self("_ensure_cell", <<stmt.name, stmt.var_type, state>>)
       IN  IF e.state.error # "" THEN e.state
           ELSE self("_assign_expr", <<e.cell, stmt.var_type, stmt.expr, e.state>>)
  ELSE IF stmt.kind = "If" THEN self("_emit_if", <<stmt, state>>)
  ELSE IF stmt.kind = "For" THEN self("_emit_for", <<stmt, state>>)
  ELSE IF ~declared(stmt.name, state) THEN raise(state, "SemanticError")
  ELSE IF stmt.kind = "Set"
  THEN self("_assign_expr", <<var_cell(stmt, state), state.var_types[stmt.name], stmt.expr, state>>)
  ELSE IF stmt.kind = "Add" THEN self("_add_expr", <<var_cell(stmt, state), stmt.expr, state, FALSE>>)
  ELSE IF stmt.kind = "Sub" THEN self("_add_expr", <<var_cell(stmt, state), stmt.expr, state, TRUE>>)
  ELSE IF stmt.kind = "Mul"
  THEN IF stmt.expr.kind \in {"NumberLiteral", "CharLiteral"}
       THEN self("_multiply_literal", <<var_cell(stmt, state), stmt.expr.value, state>>)
       ELSE IF ~declared(stmt.expr.name, state) THEN raise(state, "SemanticError")
       ELSE self("_multiply_cell", <<var_cell(stmt, state), state.cell_map[stmt.expr.name], state>>)
  ELSE IF stmt.kind = "Div"
  THEN IF state.var_types[stmt.name] # NUM THEN raise(state, "SemanticError")
       ELSE IF stmt.expr.kind \in {"NumberLiteral", "CharLiteral"}
       THEN self("_divide_literal", <<var_cell(stmt, state), stmt.expr.value, state>>)
       ELSE IF ~declared(stmt.expr.name, state) THEN raise(state, "SemanticError")
       ELSE self("_divide_cells", <<var_cell(stmt, state), state.cell_map[stmt.expr.name], state>>)
  ELSE IF stmt.kind = "PrintChar"
  THEN IF state.var_types[stmt.name] # CHAR THEN raise(state, "SemanticError")
       ELSE self("_move_to", <<0, append(self("_move_to", <<var_cell(stmt, state), state>>), <<".">>)>>)
  ELSE IF stmt.kind = "PrintNum"
  THEN IF state.var_types[stmt.name] # NUM THEN raise(state, "SemanticError")
       ELSE self("_emit_print_num", <<var_cell(stmt, state), state>>)
  ELSE IF stmt.kind = "PrintDec"
  THEN IF state.var_types[stmt.name] # NUM THEN raise(state, "SemanticError")
       ELSE self("_emit_print_dec", <<var_cell(stmt, state), state>>)
  ELSE IF stmt.kind = "InputChar"
  THEN IF state.var_types[stmt.name] # CHAR THEN raise(state, "SemanticError")
       ELSE self("_move_to", <<0, append(self("_move_to", <<var_cell(stmt, state), state>>), <<",">>)>>)
  ELSE IF stmt.kind = "InputNum"
  THEN IF state.var_types[stmt.name] # NUM THEN raise(state, "SemanticError")
       ELSE self("_move_to", <<0, append(self("_move_to", <<var_cell(stmt, state), state>>), <<",">>)>>)
  ELSE raise(state, "SemanticError")

\* The code generation of transpile, before the optimizer: the final
\* CodeGenState for a statement list.
generate(statements) ==
  LET s1 == emit_statements(statements, 1, self("_emit_intro", <<CodeGenState>>))
  IN  IF s1.error # "" THEN s1 ELSE self("_move_to", <<0, s1>>)

(***************************************************************************)
(* Peephole optimizer.  The scans over the emitted stream are written as   *)
(* divide-and-conquer folds over index ranges, which compute what the      *)
(* index loops of the source compute.                                      *)
(***************************************************************************)
\* 1 for the characters `+-`, 2 for `<>`, 0 for everything else.
run_class(ch) ==
  IF ch \in {"+", "-"} THEN 1 ELSE IF ch \in {"<", ">"} THEN 2 ELSE 0

run_value(ch) ==
  IF ch \in {"+", ">"} THEN 1 ELSE IF ch \in {"-", "<"} THEN -1 ELSE 0

\* One round of a scan over adjacent ranges: the results in `level` taken two
\* neighbours at a time (the last one alone when their number is odd).
halved(level) ==
  [i \in 1..((Len(level) + 1) \div 2) |->
     SubSeq(level, 2 * i - 1, Min(2 * i, Len(level)))] \o << >>

\* The results for adjacent ranges [lo, hi, delta, lead] merged into one.
RECURSIVE run_levels(_, _)
run_levels(code, level) ==
  LET merge(L, R) ==
        LET cont == run_class(code[L.hi]) # 0
                    /\ run_class(code[L.hi]) = run_class(code[R.lo])
            carry == L.delta[Len(L.delta)]
        IN  [lo |-> L.lo, hi |-> R.hi,
             delta |-> L.delta \o
                       [k \in 1..Len(R.delta) |->
                          IF cont /\ k <= R.lead THEN R.delta[k] + carry
                          ELSE R.delta[k]],
             lead |-> IF cont /\ L.lead = Len(L.delta) THEN L.lead + R.lead
                      ELSE L.lead]
      merged(pairs) ==
        [i \in 1..Len(pairs) |->
           IF Len(pairs[i]) = 2 THEN merge(pairs[i][1], pairs[i][2]) ELSE pairs[i][1]]
          \o << >>
  IN  IF Len(level) = 1 THEN level[1] ELSE run_levels(code, merged(halved(level)))

\* The inner while-loops of _optimize_code over code[lo..hi]: delta[k] is the
\* value of `delta` after the character lo+k-1 has been consumed (a run that
\* started before lo counts from lo); lead is the length of the run at lo.
run_deltas(code, lo, hi) ==
  LET single(i) == [lo |-> i, hi |-> i, delta |-> <<run_value(code[i])>>, lead |-> 1]
      whole(top) == [delta |-> top.delta, lead |-> top.lead]
  IN  whole(run_levels(code, [k \in 1..(hi - lo + 1) |-> single(lo + k - 1)] \o << >>))

\* What _optimize_code appends when its index passes position i: the
\* re-emitted run when i ends a run, the character itself outside runs.
compacted_piece(code, delta, i) ==
  LET ch == code[i]
  IN  IF run_class(ch) = 0 THEN <<ch>>
      ELSE IF i < Len(code) /\ run_class(code[i + 1]) = run_class(ch) THEN << >>
      ELSE IF delta[i] > 0 THEN Repeat(IF run_class(ch) = 1 THEN "+" ELSE ">", delta[i])
      ELSE IF delta[i] < 0 THEN Repeat(IF run_class(ch) = 1 THEN "-" ELSE "<", -delta[i])
      ELSE << >>

\* "".join(pieces)
RECURSIVE join_levels(_)
join_levels(level) ==
  LET merge(L, R) == L \o R
      merged(pairs) ==
        [i \in 1..Len(pairs) |->
           IF Len(pairs[i]) = 2 THEN merge(pairs[i][1], pairs[i][2]) ELSE pairs[i][1]]
          \o << >>
  IN  IF Len(level) = 1 THEN level[1] ELSE join_levels(merged(halved(level)))

\* "".join(optimized) for the pieces of positions lo..hi
join_pieces(code, delta, lo, hi) ==
  join_levels([k \in 1..(hi - lo + 1) |-> compacted_piece(code, delta, lo + k - 1)] \o << >>)

\* Bracket matching of code[lo..hi] with a stack: map[k] is the partner of
\* position lo+k-1 (0 when it has none inside lo..hi), open the stack of
\* unmatched `[` (bottom first) and close the unmatched `]`, in order.
RECURSIVE link_pairs(_, _, _, _, _, _)
link_pairs(map, lo, opens, closes, j, k) ==
  IF j > k THEN map
  ELSE LET o == opens[Len(opens) - j + 1]
           c == closes[j]
       IN  link_pairs([map EXCEPT ![o - lo + 1] = c, ![c - lo + 1] = o],
                      lo, opens, closes, j + 1, k)

\* The matchings of adjacent ranges [lo, map, open, close] merged into one.
RECURSIVE match_levels(_)
match_levels(level) ==
  LET merge(L, R) ==
        LET k == Min(Len(L.open), Len(R.close))
        IN  [lo |-> L.lo,
             map |-> link_pairs(L.map \o R.map, L.lo, L.open, R.close, 1, k),
             open |-> SubSeq(L.open, 1, Len(L.open) - k) \o R.open,
             close |-> L.close \o SubSeq(R.close, k + 1, Len(R.close))]
      merged(pairs) ==
        [i \in 1..Len(pairs) |->
           IF Len(pairs[i]) = 2 THEN merge(pairs[i][1], pairs[i][2]) ELSE pairs[i][1]]
          \o << >>
  IN  IF Len(level) = 1 THEN level[1] ELSE match_levels(merged(halved(level)))

match_brackets(code, lo, hi) ==
  LET single(i) ==
        [lo |-> i, map |-> <<0>>,
         open |-> IF code[i] = "[" THEN <<i>> ELSE << >>,
         close |-> IF code[i] = "]" THEN <<i>> ELSE << >>]
      whole(top) == [map |-> top.map, open |-> top.open, close |-> top.close]
  IN  whole(match_levels([k \in 1..(hi - lo + 1) |-> single(lo + k - 1)] \o << >>))

\* [ok, map]: ok is FALSE where the source returns None; map[i] is the index
\* of the `]` matching the `[` at i (0 elsewhere).
_build_bracket_map(code) ==
  IF Len(code) = 0 THEN [ok |-> TRUE, map |-> << >>]
  ELSE LET m == match_brackets(code, 1, Len(code))
       IN  IF m.open # << >> \/ m.close # << >> THEN [ok |-> FALSE, map |-> << >>]
           ELSE [ok |-> TRUE,
                 map |-> [i \in 1..Len(code) |-> IF code[i] = "[" THEN m.map[i] ELSE 0]]

_is_clear_loop(body) ==
  LET pointer_at(k) ==
        Cardinality({j \in 1..(k - 1) : body[j] = ">"})
          - Cardinality({j \in 1..(k - 1) : body[j] = "<"})
      home_decrements ==
        Cardinality({k \in 1..Len(body) : body[k] = "-" /\ pointer_at(k) = 0})
      home_increments ==
        Cardinality({k \in 1..Len(body) : body[k] = "+" /\ pointer_at(k) = 0})
  IN  /\ body # << >>
      /\ \A k \in 1..Len(body) : body[k] \in {"+", "-", "<", ">"}
      /\ pointer_at(Len(body) + 1) = 0
      /\ home_decrements > 0
      /\ home_increments = 0

\* The bracket depths of adjacent ranges merged into one.
RECURSIVE depth_levels(_)
depth_levels(level) ==
  LET merge(L, R) == L \o [k \in 1..Len(R) |-> R[k] + L[Len(L)]]
      merged(pairs) ==
        [i \in 1..Len(pairs) |->
           IF Len(pairs[i]) = 2 THEN merge(pairs[i][1], pairs[i][2]) ELSE pairs[i][1]]
          \o << >>
  IN  IF Len(level) = 1 THEN level[1] ELSE depth_levels(merged(halved(level)))

\* Bracket depth after each position of code[lo..hi], relative to lo.
bracket_depths(code, lo, hi) ==
  LET single(i) == <<IF code[i] = "[" THEN 1 ELSE IF code[i] = "]" THEN -1 ELSE 0>>
  IN  depth_levels([k \in 1..(hi - lo + 1) |-> single(lo + k - 1)] \o << >>)

\* [code, changed].  The scan visits the characters outside every loop and
\* the outermost loops; a clear loop is appended once and the identical
\* copies that follow it are skipped; any other loop is appended whole.
_collapse_clear_loop_runs_once(code) ==
  LET n == Len(code)
      scan(bracket_map, depth) ==
        LET visited == {s \in 1..n : code[s] = "[" /\ (s = 1 \/ depth[s - 1] = 0)}
            repeats(s, end) ==
              /\ s - (end - s + 1) >= 1
              /\ SubSeq(code, s - (end - s + 1), s - 1) = SubSeq(code, s, end)
              /\ self("_is_clear_loop", <<SubSeq(code, s + 1, end - 1)>>)
            collapse(skipped) ==
              LET kept(i) == \A s \in skipped : i < s \/ i > bracket_map.map[s]
                  copy(indices) == [k \in 1..Len(indices) |-> code[indices[k]]]
              IN  [code |-> copy(SelectSeq([i \in 1..n |-> i], kept)),
                   changed |-> skipped # {}]
        IN  IF n = 0 \/ ~bracket_map.ok THEN [code |-> code, changed |-> FALSE]
            ELSE collapse({s \in visited : repeats(s, bracket_map.map[s])})
  IN  scan(self("_build_bracket_map", <<code>>),
           IF n = 0 THEN << >> ELSE bracket_depths(code, 1, n))

_collapse_clear_loop_runs(code) ==
  LET again(once) ==
        IF once.changed THEN self("_collapse_clear_loop_runs", <<once.code>>)
        ELSE once.code
  IN  again(self("_collapse_clear_loop_runs_once", <<code>>))

_optimize_code(code) ==
  LET compact(delta) == join_pieces(code, delta, 1, Len(code))
      compacted == IF Len(code) = 0 THEN code
                   ELSE compact(run_deltas(code, 1, Len(code)).delta)
  IN  self("_collapse_clear_loop_runs", <<compacted>>)

\* transpile, from the parsed statement list on: [error, code].
transpile(statements) ==
  LET result(state) ==
        IF state.error # "" THEN [error |-> state.error, code |-> << >>]
        ELSE [error |-> "", code |-> self("_optimize_code", <<state.output>>)]
  IN  result(self("generate", <<statements>>))

\* self.<method>(...): every call from one method of the generator to another
\* goes through this lookup, with the arguments of the call as a tuple.
self(method, args) ==
  CASE method = "_try_scaled_increment" ->
         _try_scaled_increment(args[1], args[2], args[3], args[4])
    [] method = "_increment_cell" ->
         _increment_cell(args[1], args[2], args[3])
    [] method = "_set_cell" ->
         _set_cell(args[1], args[2], args[3])
    [] method = "_copy_cell" ->
         _copy_cell(args[1], args[2], args[3])
    [] method = "_transfer_add" ->
         _transfer_add(args[1], args[2], args[3])
    [] method = "_transfer_subtract" ->
         _transfer_subtract(args[1], args[2], args[3])
    [] method = "_is_zero" ->
         _is_zero(args[1], args[2], args[3])
    [] method = "_subtract_divisor_if_possible" ->
         _subtract_divisor_if_possible(args[1], args[2], args[3], args[4])
    [] method = "_multiply_literal" ->
         _multiply_literal(args[1], args[2], args[3])
    [] method = "_multiply_cell" ->
         _multiply_cell(args[1], args[2], args[3])
    [] method = "_divide_cells" ->
         _divide_cells(args[1], args[2], args[3])
    [] method = "_divide_literal" ->
         _divide_literal(args[1], args[2], args[3])
    [] method = "_assign_expr" ->
         _assign_expr(args[1], args[2], args[3], args[4])
    [] method = "_add_expr" ->
         _add_expr(args[1], args[2], args[3], args[4])
    [] method = "_print_digit" ->
         _print_digit(args[1], args[2])
    [] method = "_emit_print_dec" ->
         _emit_print_dec(args[1], args[2])
    [] method = "_emit_block" ->
         _emit_block(args[1], args[2])
    [] method = "_emit_if" ->
         _emit_if(args[1], args[2])
    [] method = "_emit_for" ->
         _emit_for(args[1], args[2])
    [] method = "_move_to" ->
         _move_to(args[1], args[2])
    [] method = "_zero_current" ->
         _zero_current(args[1])
    [] method = "_zero_cell" ->
         _zero_cell(args[1], args[2])
    [] method = "_get_scratch_cell" ->
         _get_scratch_cell(args[1], args[2])
    [] method = "_allocate_cell" ->
         _allocate_cell(args[1])
    [] method = "_emit_intro" ->
         _emit_intro(args[1])
    [] method = "_emit_linear_increment" ->
         _emit_linear_increment(args[1], args[2], args[3])
    [] method = "_select_scaled_increment" ->
         _select_scaled_increment(args[1], args[2])
    [] method = "_ensure_cell" ->
         _ensure_cell(args[1], args[2], args[3])
    [] method = "_expr_type" ->
         _expr_type(args[1], args[2])
    [] method = "_emit_print_num" ->
         _emit_print_num(args[1], args[2])
    [] method = "_emit_statement" ->
         _emit_statement(args[1], args[2])
    [] method = "_build_bracket_map" ->
         _build_bracket_map(args[1])
    [] method = "_is_clear_loop" ->
         _is_clear_loop(args[1])
    [] method = "_collapse_clear_loop_runs_once" ->
         _collapse_clear_loop_runs_once(args[1])
    [] method = "_collapse_clear_loop_runs" ->
         _collapse_clear_loop_runs(args[1])
    [] method = "_optimize_code" ->
         _optimize_code(args[1])
    [] method = "generate" ->
         generate(args[1])
    [] method = "transpile" ->
         transpile(args[1])
    [] OTHER -> raise(args[Len(args)], "AttributeError")

(***************************************************************************)
(* Brainfuck interpreter (bf_interpreter.py)                               *)
(***************************************************************************)
tape_length == 30000

cell_max == 255

cell_min == 0

\* max_steps = None
NoLimit == -1

\* Faulty variant: the brackets left open at the end are not reported.
_build_jump_map_open(code_chars) ==
  IF Len(code_chars) = 0 THEN [ok |-> TRUE, map |-> << >>]
  ELSE LET m == match_brackets(code_chars, 1, Len(code_chars))
       IN  [ok |-> m.close = << >>, map |-> m.map]

\* [ok, map]: ok is FALSE where the source raises ValueError; map[i] is the
\* partner of the bracket at i, in both directions (0 for other characters).
_build_jump_map(code_chars) ==
  IF Len(code_chars) = 0 THEN [ok |-> TRUE, map |-> << >>]
  ELSE LET m == match_brackets(code_chars, 1, Len(code_chars))
       IN  [ok |-> m.open = << >> /\ m.close = << >>, map |-> m.map]

\* The tape is the list [0] * tape_length; it is represented by its non-zero
\* cells: a function from the indices of the non-zero cells to their values.
cell_value(tape, index) == IF index \in DOMAIN tape THEN tape[index] ELSE 0

store(tape, index, value) ==
  IF value = 0 THEN [i \in DOMAIN tape \ {index} |-> tape[i]]
  ELSE [i \in DOMAIN tape \cup {index} |-> IF i = index THEN value ELSE tape[i]]

\* One call of _execute_instruction on the machine m = [tape, pointer,
\* output_buffer, input_iter], where input_iter counts the input values
\* consumed so far.  pc is 0-based as in the source; jump_map is a 1-based
\* sequence.  Returns the machine with new_pc and error ("IndexError" when the
\* pointer leaves the tape; the pointer has then already been moved).
_execute_instruction(command, pc, jump_map, input_values, m) ==
  LET here == cell_value(m.tape, m.pointer)
      next == [m EXCEPT !.new_pc = pc + 1, !.error = ""]
  IN  IF command = ">"
      THEN IF m.pointer + 1 >= tape_length
           THEN [next EXCEPT !.pointer = @ + 1, !.error = "IndexError"]
           ELSE [next EXCEPT !.pointer = @ + 1]
      ELSE IF command = "<"
      THEN IF m.pointer - 1 < 0
           THEN [next EXCEPT !.pointer = @ - 1, !.error = "IndexError"]
           ELSE [next EXCEPT !.pointer = @ - 1]
      ELSE IF command = "+"
      THEN [next EXCEPT !.tape =
              store(@, m.pointer, ((here + 1 - cell_min) % (cell_max + 1)) + cell_min)]
      ELSE IF command = "-"
      THEN [next EXCEPT !.tape =
              store(@, m.pointer, ((here - 1 - cell_min) % (cell_max + 1)) + cell_min)]
      ELSE IF command = "."
      THEN [next EXCEPT !.output_buffer = Append(@, here)]
      ELSE IF command = ","
      THEN IF m.input_iter < Len(input_values)
           THEN [next EXCEPT !.tape = store(@, m.pointer, input_values[m.input_iter + 1]),
                             !.input_iter = @ + 1]
           ELSE [next EXCEPT !.tape = store(@, m.pointer, 0)]
      ELSE IF command = "["
      THEN IF here = 0 THEN [next EXCEPT !.new_pc = jump_map[pc + 1]] ELSE next
      ELSE IF command = "]"
      THEN IF here # 0 THEN [next EXCEPT !.new_pc = jump_map[pc + 1]] ELSE next
      ELSE next

\* command = None, in the terminal snapshot and in the initial state of a
\* debug session
NoCommand == "None"

\* tape[start:end]: the cells start..end-1 as a list
tape_view(tape, start, end) ==
  [i \in 1..(end - start) |-> cell_value(tape, start + i - 1)]

max(a, b) == IF a >= b THEN a ELSE b

min(a, b) == IF a <= b THEN a ELSE b

\* A snapshot that numbers the instructions from 0.
_snapshot_step_from_zero(pc, command, step, code_length, tape_window, m) ==
  [step |-> max(0, step - 1),
   pc |-> pc,
   command |-> command,
   pointer |-> m.pointer,
   tape_start |-> max(0, m.pointer - tape_window),
   tape |-> tape_view(m.tape, max(0, m.pointer - tape_window),
                      min(tape_length, m.pointer + tape_window + 1)),
   output |-> m.output_buffer,
   code_length |-> code_length]

\* Faulty variant: the snapshot carries the output without its last
\* character.
_snapshot_behind(pc, command, step, code_length, tape_window, m) ==
  [step |-> step,
   pc |-> pc,
   command |-> command,
   pointer |-> m.pointer,
   tape_start |-> max(0, m.pointer - tape_window),
   tape |-> tape_view(m.tape, max(0, m.pointer - tape_window),
                      min(tape_length, m.pointer + tape_window + 1)),
   output |-> SubSeq(m.output_buffer, 1, Len(m.output_buffer) - 1),
   code_length |-> code_length]

\* The ExecutionState that _snapshot builds from the machine m.
_snapshot(pc, command, step, code_length, tape_window, m) ==
  [step |-> step,
   pc |-> pc,
   command |-> command,
   pointer |-> m.pointer,
   tape_start |-> max(0, m.pointer - tape_window),
   tape |-> tape_view(m.tape, max(0, m.pointer - tape_window),
                      min(tape_length, m.pointer + tape_window + 1)),
   output |-> m.output_buffer,
   code_length |-> code_length]

\* A budget that is tested only once it has been overrun.
step_limit_reached_after(max_steps, steps) == max_steps # NoLimit /\ steps > max_steps

\* The test at the head of the loop of step that raises StepLimitExceeded.
step_limit_reached(max_steps, steps) == max_steps # NoLimit /\ steps >= max_steps

(***************************************************************************)
(* The programs that are transpiled and run.  A program is named by a key; *)
(* Source gives its statement list.  Every program reads its variables     *)
(* from the input, so that one emitted program is run on many values.      *)
(***************************************************************************)
\* Bounds of the input values and literals.
MaxSmall == 2

MaxDividend == 7

MaxDivisor == 3

\* 0..MaxSmall and the values that wrap around, 256-MaxSmall..255
Values == (0..MaxSmall) \cup ((256 - MaxSmall)..255)

\* let num x = 0 / input_num x / let num y = 0 / input_num y / let num z = 7
ReadXY ==
  <<Let("x", NUM, NumberLiteral(0)), InputNum("x"),
    Let("y", NUM, NumberLiteral(0)), InputNum("y"),
    Let("z", NUM, NumberLiteral(7))>>

\* let num f = 0 / input_num f / let char a = 'A' / let char b = 'B' /
\* let num n = 0
ReadFlag ==
  <<Let("f", NUM, NumberLiteral(0)), InputNum("f"),
    Let("a", CHAR, CharLiteral(65)), Let("b", CHAR, CharLiteral(66)),
    Let("n", NUM, NumberLiteral(0))>>

\* let num lo = 0 / input_num lo / let num hi = 0 / input_num hi /
\* let num i = 9 / let num n = 0
ReadBounds ==
  <<Let("lo", NUM, NumberLiteral(0)), InputNum("lo"),
    Let("hi", NUM, NumberLiteral(0)), InputNum("hi"),
    Let("i", NUM, NumberLiteral(9)), Let("n", NUM, NumberLiteral(0))>>

\* The blocks of the `if` and `for` programs.
Block(name) ==
  IF name = "print_a" THEN <<PrintChar("a")>>
  ELSE IF name = "print_b" THEN <<PrintChar("b")>>
  ELSE IF name = "count" THEN <<Add("n", NumberLiteral(1))>>
  ELSE IF name = "copy_print_a" THEN <<Set("n", Identifier("a")), PrintChar("a")>>
  ELSE IF name = "count_assign_i"
  THEN <<Add("n", NumberLiteral(1)), Set("i", NumberLiteral(0))>>
  ELSE IF name = "count_move_bounds"
  THEN <<Add("n", NumberLiteral(1)), Add("hi", NumberLiteral(1)),
         Sub("lo", NumberLiteral(1))>>
  ELSE << >>

ThenBlocks == {"print_a", "count", "copy_print_a"}

ElseBlocks == {"print_b", "none"}

ForBodies == {"count", "count_assign_i", "count_move_bounds"}

\* Literal operands: small ones, the last magnitude emitted as a linear run at
\* cell 3 (23), the first emitted as a scaled loop (24), a scaled loop with a
\* remainder (29), and large ones.
Literals == (0..MaxSmall) \cup {23, 24, 29, 200, 255}

MulLiterals == (0..MaxSmall) \cup {3, 20, 255}

MulValues == (0..MaxSmall) \cup {16, 20}

IfPrograms == {<<"if", t, e>> : t \in ThenBlocks, e \in ElseBlocks}

AddSubPrograms == {<<op, dst, src>> : op \in {"add", "sub"}, dst \in {"x", "y"}, src \in {"x", "y"}}

AddSubLiteralPrograms == {<<op, k>> : op \in {"add_literal", "sub_literal"}, k \in Literals}

AssignPrograms ==
  {<<op, "x", src>> : op \in {"set", "let"}, src \in {"x", "y"}}
    \cup {<<op, k>> : op \in {"set_literal", "let_literal"}, k \in Literals}
    \cup {<<"let_new", "y">>, <<"let_new_literal", 200>>}

MulPrograms ==
  {<<"mul", "x", src>> : src \in {"x", "y"}} \cup {<<"mul_literal", k>> : k \in MulLiterals}

DivPrograms ==
  {<<"div", "x", src>> : src \in {"x", "y"}} \cup {<<"div_literal", k>> : k \in 0..MaxDivisor}

ForPrograms ==
  {<<"for", body>> : body \in ForBodies}
    \cup {<<"for_literal", ab[1], ab[2]>> : ab \in {<<0, 3>>, <<3, 0>>, <<2, 2>>}}

PrintDecPrograms == {<<"print_dec">>}

\* Programs for the type rules: after `let num n = 1` and `let char c = 'a'`
\* one statement of every kind, on the variables n, c and u (never declared
\* before) and on every kind of operand, at the top level, in the then-block
\* or the else-block of an `if`, or in the body of a `for`.
StatementKinds ==
  {"let_num", "let_char", "set", "add", "sub", "mul", "div", "print_char", "print_num",
   "print_dec", "input_char", "input_num", "if", "for"}

Operands(kind) ==
  IF kind \in {"print_char", "print_num", "print_dec", "input_char", "input_num", "if"}
  THEN {"none"}
  ELSE {"n", "c", "u", "number", "char"}

TypedPrograms ==
  UNION {{<<"typed", nest, kind, name, operand>> :
            nest \in {"top", "then", "else", "body"}, name \in {"n", "c", "u"},
            operand \in Operands(kind)} : kind \in StatementKinds}

TypedSource(key) ==
  LET kind == key[3]
      name == key[4]
      operand == IF key[5] = "number" THEN NumberLiteral(2)
                 ELSE IF key[5] = "char" THEN CharLiteral(98)
                 ELSE Identifier(key[5])
      stmt == CASE kind = "let_num" -> Let(name, NUM, operand)
                [] kind = "let_char" -> Let(name, CHAR, operand)
                [] kind = "set" -> Set(name, operand)
                [] kind = "add" -> Add(name, operand)
                [] kind = "sub" -> Sub(name, operand)
                [] kind = "mul" -> Mul(name, operand)
                [] kind = "div" -> Div(name, operand)
                [] kind = "print_char" -> PrintChar(name)
                [] kind = "print_num" -> PrintNum(name)
                [] kind = "print_dec" -> PrintDec(name)
                [] kind = "input_char" -> InputChar(name)
                [] kind = "input_num" -> InputNum(name)
                [] kind = "if" -> If(name, <<Add("n", NumberLiteral(1))>>, << >>)
                [] kind = "for" -> For(name, operand, NumberLiteral(2), << >>)
      nested == CASE key[2] = "top" -> <<stmt>>
                  [] key[2] = "then" -> <<If("n", <<stmt>>, << >>)>>
                  [] key[2] = "else" -> <<If("n", <<Add("n", NumberLiteral(1))>>, <<stmt>>)>>
                  [] key[2] = "body" ->
                       <<For("n", NumberLiteral(0), NumberLiteral(1), <<stmt>>)>>
  IN  <<Let("n", NUM, NumberLiteral(1)), Let("c", CHAR, CharLiteral(97))>> \o nested

ProgramKeys ==
  IfPrograms \cup AddSubPrograms \cup AddSubLiteralPrograms \cup AssignPrograms
    \cup MulPrograms \cup DivPrograms \cup ForPrograms \cup PrintDecPrograms

Source(key) ==
  LET op == key[1]
  IN  IF op = "if" THEN ReadFlag \o <<If("f", Block(key[2]), Block(key[3]))>>
      ELSE IF op = "add" THEN ReadXY \o <<Add(key[2], Identifier(key[3]))>>
      ELSE IF op = "sub" THEN ReadXY \o <<Sub(key[2], Identifier(key[3]))>>
      ELSE IF op = "add_literal" THEN ReadXY \o <<Add("x", NumberLiteral(key[2]))>>
      ELSE IF op = "sub_literal" THEN ReadXY \o <<Sub("x", NumberLiteral(key[2]))>>
      ELSE IF op = "set" THEN ReadXY \o <<Set(key[2], Identifier(key[3]))>>
      ELSE IF op = "let" THEN ReadXY \o <<Let(key[2], NUM, Identifier(key[3]))>>
      ELSE IF op = "set_literal" THEN ReadXY \o <<Set("x", NumberLiteral(key[2]))>>
      ELSE IF op = "let_literal" THEN ReadXY \o <<Let("x", NUM, CharLiteral(key[2]))>>
      ELSE IF op = "let_new" THEN ReadXY \o <<Let("w", CHAR, Identifier(key[2]))>>
      ELSE IF op = "let_new_literal" THEN ReadXY \o <<Let("w", NUM, NumberLiteral(key[2]))>>
      ELSE IF op = "mul" THEN ReadXY \o <<Mul(key[2], Identifier(key[3]))>>
      ELSE IF op = "mul_literal" THEN ReadXY \o <<Mul("x", NumberLiteral(key[2]))>>
      ELSE IF op = "div" THEN ReadXY \o <<Div(key[2], Identifier(key[3]))>>
      ELSE IF op = "div_literal" THEN ReadXY \o <<Div("x", NumberLiteral(key[2]))>>
      ELSE IF op = "for"
      THEN ReadBounds \o <<For("i", Identifier("lo"), Identifier("hi"), Block(key[2]))>>
      ELSE IF op = "for_literal"
      THEN ReadBounds \o <<For("i", NumberLiteral(key[2]), NumberLiteral(key[3]),
                               Block("count"))>>
      ELSE IF op = "print_dec"
      THEN <<Let("x", NUM, NumberLiteral(0)), InputNum("x"), PrintDec("x")>>
      ELSE IF op = "typed" THEN TypedSource(key)
      ELSE << >>

\* transpile(source) for every program and the final generator state.
Transpiled == [key \in ProgramKeys |-> self("transpile", <<Source(key)>>)]

Generated == [key \in ProgramKeys |-> self("generate", <<Source(key)>>)]

\* The locals of step that stay fixed in its loop: code_chars = list(code),
\* jump_map = self._build_jump_map(code_chars), code_length = len(code_chars).
step_locals(code) ==
  [code_chars |-> code, jump_map |-> _build_jump_map(code), code_length |-> Len(code)]

\* Brainfuck programs given as text and run as they are: the empty program,
\* straight-line code, a loop that never ends, a loop that ends, a move off
\* the tape, programs that read input, an unmatched bracket, a comment, a
\* loop that writes.
BrainfuckTexts ==
  {"", "+", "+++.", "+[]", "++[-]", "<", ",.", ",[-]", "+[", "a+", "++[.-]."}

\* list(code) of a program text
list(code) ==
  CASE code = "" -> << >>
    [] code = "+" -> <<"+">>
    [] code = "+++." -> <<"+", "+", "+", ".">>
    [] code = "+[]" -> <<"+", "[", "]">>
    [] code = "++[-]" -> <<"+", "+", "[", "-", "]">>
    [] code = "<" -> <<"<">>
    [] code = ",." -> <<",", ".">>
    [] code = ",[-]" -> <<",", "[", "-", "]">>
    [] code = "+[" -> <<"+", "[">>
    [] code = "++[.-]." -> <<"+", "+", "[", ".", "-", "]", ".">>
    [] code = "a+" -> <<"a", "+">>
    [] code = "0" -> <<"0">>
    [] code = "1" -> <<"1">>

BrainfuckPrograms == {<<"bf", code>> : code \in BrainfuckTexts}

\* The eight command characters, and every string of at most MaxLength of
\* them, as the list of its characters.
Commands == {"+", "-", "<", ">", ".", ",", "[", "]"}

MaxLength == 4

CommandStrings == UNION {[1..n -> Commands] : n \in 0..MaxLength}

\* The strings of at most MaxProgram commands with balanced brackets: the
\* programs the preflight of step accepts.
MaxProgram == 3

BalancedPrograms ==
  {<<"raw", code>> :
     code \in {c \in CommandStrings : Len(c) <= MaxProgram /\ _build_jump_map(c).ok}}

\* The strings of at most MaxBrackets characters over `[`, `]` and `+`, with
\* balanced and with unmatched brackets.
MaxBrackets == 6

BracketPrograms ==
  {<<"raw", code>> : code \in UNION {[1..n -> {"[", "]", "+"}] : n \in 0..MaxBrackets}}

Programs == ProgramKeys \cup BrainfuckPrograms \cup BalancedPrograms \cup BracketPrograms

\* The code that step is given: the text as it is, or the transpiled program.
Code(key) ==
  IF key[1] = "bf" THEN list(key[2])
  ELSE IF key[1] = "raw" THEN key[2]
  ELSE Transpiled[key].code

StepLocals == [key \in Programs |-> step_locals(Code(key))]

\* The locals of step for the optimizer's output on a balanced program.
OptimizedLocals ==
  [key \in BalancedPrograms |-> step_locals(self("_optimize_code", <<key[2]>>))]

\* The characters of the input texts, by their Unicode names, and ord of each.
Characters ==
  {"NULL", "LATIN CAPITAL LETTER A", "LATIN SMALL LETTER Y WITH DIAERESIS",
   "LATIN CAPITAL LETTER A WITH MACRON", "EURO SIGN"}

ord(ch) ==
  CASE ch = "NULL" -> 0
    [] ch = "LATIN CAPITAL LETTER A" -> 65
    [] ch = "LATIN SMALL LETTER Y WITH DIAERESIS" -> 255
    [] ch = "LATIN CAPITAL LETTER A WITH MACRON" -> 256
    [] ch = "EURO SIGN" -> 8364
    [] ch = "SUPERSCRIPT TWO" -> 178
    [] ch = "0" -> 48
    [] ch = "1" -> 49
    [] ch = "2" -> 50
    [] ch = "5" -> 53
    [] ch = "6" -> 54
    [] ch = "'" -> 39
    [] ch = "\\" -> 92
    [] ch = "n" -> 110

\* _to_input_bytes(data): the code point of every character of the text.
_to_input_bytes(data) == [i \in 1..Len(data) |-> ord(data[i])]

(***************************************************************************)
(* The parser.  A token is the list of its characters; a line is the list  *)
(* of its words (line.split()), the lines being those _preprocess has      *)
(* left.  A method returns a record whose error names the exception it     *)
(* raised ("" when it returned).                                           *)
(***************************************************************************)
\* The characters for which str.isdigit holds and those int() accepts; the
\* superscript two is a digit that int() rejects with ValueError.
DecimalDigits == {"0", "1", "2", "5", "6"}

Digits == DecimalDigits \cup {"SUPERSCRIPT TWO"}

isdigit(token) == token # << >> /\ \A i \in 1..Len(token) : token[i] \in Digits

\* int(token) of a token of decimal digits
int(token) ==
  LET weight(i) == 10 ^ (Len(token) - i)
      digit(i) == ord(token[i]) - ord("0")
      RECURSIVE sum(_)
      sum(i) == IF i > Len(token) THEN 0 ELSE digit(i) * weight(i) + sum(i + 1)
  IN  sum(1)

\* str.isidentifier on the characters of the tokens
Letters == {"n", "LATIN CAPITAL LETTER A WITH MACRON"}

isidentifier(token) ==
  /\ token # << >>
  /\ token[1] \in Letters
  /\ \A i \in 1..Len(token) : token[i] \in Letters \cup DecimalDigits

\* Faulty variant: the range of the literal is not tested.
_parse_number_any(token) ==
  IF ~isdigit(token) THEN [error |-> "ParseError", value |-> 0]
  ELSE IF \E i \in 1..Len(token) : token[i] \notin DecimalDigits
  THEN [error |-> "ValueError", value |-> 0]
  ELSE [error |-> "", value |-> int(token)]

_parse_number(token) ==
  IF ~isdigit(token) THEN [error |-> "ParseError", value |-> 0]
  ELSE IF \E i \in 1..Len(token) : token[i] \notin DecimalDigits
  THEN [error |-> "ValueError", value |-> 0]
  ELSE IF ~(0 <= int(token) /\ int(token) <= 255) THEN [error |-> "ParseError", value |-> 0]
  ELSE [error |-> "", value |-> int(token)]

\* mapping = {"n": 10, "t": 9, "r": 13, "0": 0, "\\": 92, "'": 39, '"': 34}
escapes == [ch \in {"n", "t", "r", "0", "\\", "'", "\""} |->
              CASE ch = "n" -> 10 [] ch = "t" -> 9 [] ch = "r" -> 13 [] ch = "0" -> 0
                [] ch = "\\" -> 92 [] ch = "'" -> 39 [] ch = "\"" -> 34]

_parse_char_literal(token) ==
  LET inner == SubSeq(token, 2, Len(token) - 1)
      escape == SubSeq(inner, 2, Len(inner))
  IN  IF Len(inner) = 1 THEN [error |-> "", value |-> ord(inner[1])]
      ELSE IF inner # << >> /\ inner[1] = "\\"
      THEN IF Len(escape) = 1 /\ escape[1] \in DOMAIN escapes
           THEN [error |-> "", value |-> escapes[escape[1]]]
           ELSE [error |-> "ParseError", value |-> 0]
      ELSE [error |-> "ParseError", value |-> 0]

\* Returns [error, expr].
_parse_expr(token) ==
  LET number(n) ==
        [error |-> n.error, expr |-> IF n.error = "" THEN NumberLiteral(n.value) ELSE << >>]
      char(c) ==
        [error |-> c.error, expr |-> IF c.error = "" THEN CharLiteral(c.value) ELSE << >>]
  IN  IF isdigit(token) THEN number(_parse_number(token))
      ELSE IF token # << >> /\ token[1] = "'" /\ token[Len(token)] = "'"
      THEN IF Len(token) < 3 THEN [error |-> "ParseError", expr |-> << >>]
           ELSE char(_parse_char_literal(token))
      ELSE IF isidentifier(token) THEN [error |-> "", expr |-> Identifier(token)]
      ELSE [error |-> "ParseError", expr |-> << >>]

\* end_token = None
NoToken == <<"None">>

\* self.lines and self.pos after a method has raised
failed(pos) == [error |-> "ParseError", pos |-> pos, statements |-> << >>]

\* The loop of _parse_statements from self.pos = pos on, `statements` being
\* the list built so far.  Returns [error, pos, statements].
RECURSIVE parse_loop(_, _, _, _)
_parse_statements(lines, pos, end_token) == parse_loop(lines, pos, end_token, << >>)

\* An If whose false_block is None has else_block FALSE.
_parse_if(lines, pos, line) ==
  LET condition == SubSeq(line, 2, Len(line) - 1)
      with_else(t, f) ==
        IF f.error # "" THEN f
        ELSE [error |-> "", pos |-> f.pos,
              statements |-> <<[kind |-> "If", condition |-> condition,
                                true_block |-> t.statements,
                                false_block |-> f.statements, else_block |-> TRUE]>>]
      after(t) ==
        IF t.error # "" THEN t
        ELSE IF t.pos < Len(lines) /\ lines[t.pos + 1] = <<"else", "{">>
        THEN with_else(t, _parse_statements(lines, t.pos + 1, <<"}">>))
        ELSE [error |-> "", pos |-> t.pos,
              statements |-> <<[kind |-> "If", condition |-> condition,
                                true_block |-> t.statements,
                                false_block |-> << >>, else_block |-> FALSE]>>]
  IN  IF line[Len(line)] # "{" THEN failed(pos)
      ELSE IF condition = << >> THEN failed(pos)
      ELSE after(_parse_statements(lines, pos, <<"}">>))

_parse_for(lines, pos, line) ==
  LET parts == SubSeq(line, 2, Len(line) - 1)
      looped(start, end, b) ==
        IF start.error # "" THEN [failed(pos) EXCEPT !.error = start.error]
        ELSE IF end.error # "" THEN [failed(pos) EXCEPT !.error = end.error]
        ELSE IF b.error # "" THEN b
        ELSE [error |-> "", pos |-> b.pos,
              statements |-> <<For(parts[1], start.expr, end.expr, b.statements)>>]
  IN  IF line[Len(line)] # "{" THEN failed(pos)
      ELSE IF Len(parts) # 5 \/ parts[2] # "from" \/ parts[4] # "to" THEN failed(pos)
      ELSE looped(_parse_expr(list(parts[3])), _parse_expr(list(parts[5])),
                  _parse_statements(lines, pos, <<"}">>))

_parse_add(pos, parts) ==
  LET added(e) ==
        IF e.error # "" THEN [failed(pos) EXCEPT !.error = e.error]
        ELSE [error |-> "", pos |-> pos, statements |-> <<Add(parts[2], e.expr)>>]
  IN  IF Len(parts) # 3 THEN failed(pos) ELSE added(_parse_expr(list(parts[3])))

\* line = self._advance() has moved self.pos to pos.
_parse_statement(lines, pos) ==
  LET line == lines[pos]
  IN  IF Len(line) > 1 /\ line[1] = "add" THEN _parse_add(pos, line)
      ELSE IF Len(line) > 1 /\ line[1] = "if" THEN _parse_if(lines, pos, line)
      ELSE IF Len(line) > 1 /\ line[1] = "for" THEN _parse_for(lines, pos, line)
      ELSE failed(pos)

\* Faulty variant: the end of the lines closes every open block.
RECURSIVE parse_loop_closing(_, _, _, _)
parse_loop_closing(lines, pos, end_token, statements) ==
  LET appended(r) ==
        IF r.error # "" THEN r
        ELSE parse_loop_closing(lines, r.pos, end_token, statements \o r.statements)
  IN  IF pos >= Len(lines)
      THEN [error |-> "", pos |-> pos, statements |-> statements]
      ELSE IF lines[pos + 1] = <<"}">> /\ end_token = <<"}">>
      THEN [error |-> "", pos |-> pos + 1, statements |-> statements]
      ELSE IF lines[pos + 1] = <<"}">> THEN failed(pos)
      ELSE appended(_parse_statement(lines, pos + 1))

parse_loop(lines, pos, end_token, statements) ==
  LET appended(r) ==
        IF r.error # "" THEN r
        ELSE parse_loop(lines, r.pos, end_token, statements \o r.statements)
  IN  IF pos >= Len(lines)
      THEN IF end_token # NoToken THEN failed(pos)
           ELSE [error |-> "", pos |-> pos, statements |-> statements]
      ELSE IF lines[pos + 1] = <<"}">> /\ end_token = <<"}">>
      THEN [error |-> "", pos |-> pos + 1, statements |-> statements]
      ELSE IF lines[pos + 1] = <<"}">> THEN failed(pos)
      ELSE appended(_parse_statement(lines, pos + 1))

\* Parser.parse on the preprocessed lines: [error, statements].
parse(lines) ==
  LET whole(r) ==
        IF r.error # "" THEN [error |-> r.error, statements |-> << >>]
        ELSE IF r.pos # Len(lines) THEN [error |-> "ParseError", statements |-> << >>]
        ELSE [error |-> "", statements |-> r.statements]
  IN  whole(_parse_statements(lines, 0, NoToken))

\* The lines of the block programs and every sequence of at most MaxLines of
\* them; the tokens of at most MaxToken characters.
LineTexts ==
  {<<"if", "f", "{">>, <<"else", "{">>, <<"}">>,
   <<"for", "i", "from", "0", "to", "1", "{">>, <<"add", "n", "1">>}

MaxLines == 6

LinePrograms == {<<"lines", l>> : l \in UNION {[1..n -> LineTexts] : n \in 0..MaxLines}}

TokenCharacters ==
  {"0", "2", "5", "6", "SUPERSCRIPT TWO", "'", "\\", "n",
   "LATIN CAPITAL LETTER A WITH MACRON"}

MaxToken == 4

Tokens == {<<"token", t>> : t \in UNION {[1..n -> TokenCharacters] : n \in 0..MaxToken}}

(***************************************************************************)
(* The interpreter as a state machine: BrainfuckInterpreter.step, consumed *)
(* to the end as BrainfuckInterpreter.run does.                            *)
(***************************************************************************)
VARIABLES
  program,        \* key of the code passed to step
  input_data,     \* the input values passed to step
  max_steps,      \* the step budget, NoLimit for None
  tape_window,    \* the radius of the tape view of a snapshot
  tape,           \* interpreter field: the non-zero cells
  pointer,        \* interpreter field
  output_buffer,  \* interpreter field: the byte values written by `.`
  input_iter,     \* number of input values consumed
  pc,             \* local of step: 0-based index of the next instruction
  steps,          \* local of step: instructions executed
  status,         \* "created", "running", "done", or the exception raised
  snapshot,       \* the ExecutionState that step yielded last
  yielded,        \* number of snapshots that step has yielded
  session,        \* the fields of the VisualizerSession that owns the stepper
  call,            \* the last session operation: what it returned or raised
  requests        \* registry: the requests in flight for the session id

vars ==
  <<program, input_data, max_steps, tape_window, tape, pointer, output_buffer,
    input_iter, pc, steps, status, snapshot, yielded, session, call, requests>>

\* No snapshot has been yielded.
NoState == [step |-> -1]

\* hit_breakpoint = None
NoBreakpoint == -1

\* tape_window: int = 10, history_limit: int = 200
DefaultWindow == 10

DefaultHistoryLimit == 200

\* No debug session owns the stepper, no session operation has been called.
NoSession ==
  [breakpoints |-> {}, history |-> << >>, hit_breakpoint |-> NoBreakpoint,
   finished |-> FALSE, last_state |-> NoState, history_limit |-> DefaultHistoryLimit]

NoCall == [op |-> "", args |-> << >>, returned |-> << >>, raised |-> ""]

\* No request is served.
NoRequests == << >>

\* BrainfuckInterpreter(): a constructed interpreter, step not yet pulled.
Fresh ==
  /\ tape = << >>
  /\ pointer = 0
  /\ output_buffer = << >>
  /\ input_iter = 0
  /\ pc = 0
  /\ steps = 0
  /\ status = "created"
  /\ snapshot = NoState
  /\ yielded = 0

\* run(code, input_data): no step budget, the default window, no session.
Created ==
  /\ max_steps = NoLimit
  /\ tape_window = DefaultWindow
  /\ Fresh
  /\ session = NoSession
  /\ call = NoCall
  /\ requests = NoRequests

\* First pull of step: reset() and the bracket preflight.
Start ==
  /\ status = "created"
  /\ tape' = << >>
  /\ pointer' = 0
  /\ output_buffer' = << >>
  /\ input_iter' = 0
  /\ pc' = 0
  /\ steps' = 0
  /\ status' = IF StepLocals[program].jump_map.ok THEN "running" ELSE "ValueError"
  /\ UNCHANGED <<program, input_data, max_steps, tape_window, snapshot, yielded,
                 session, call, requests>>

\* The step counter is exact up to StepCap and stays there afterwards, so
\* that a program that never ends has finitely many states; a step budget is
\* at most StepCap.
StepCap == 1000

increment(n) == IF n < StepCap THEN n + 1 ELSE n

\* One iteration of the while loop of step.
Execute ==
  /\ status = "running"
  /\ \E l \in {StepLocals[program]} :
       /\ pc < l.code_length
       /\ IF step_limit_reached(max_steps, steps)
          THEN /\ status' = "StepLimitExceeded"
               /\ UNCHANGED <<tape, pointer, output_buffer, input_iter, pc, steps,
                              snapshot, yielded>>
          ELSE \E m \in {_execute_instruction(
                            l.code_chars[pc + 1], pc, l.jump_map.map, input_data,
                            [tape |-> tape, pointer |-> pointer,
                             output_buffer |-> output_buffer,
                             input_iter |-> input_iter,
                             new_pc |-> pc, error |-> ""])} :
                 /\ tape' = m.tape
                 /\ pointer' = m.pointer
                 /\ output_buffer' = m.output_buffer
                 /\ input_iter' = m.input_iter
                 /\ IF m.error # ""
                    THEN status' = m.error /\ UNCHANGED <<pc, steps, snapshot, yielded>>
                    ELSE /\ status' = status
                         /\ pc' = m.new_pc
                         /\ steps' = increment(steps)
                         /\ snapshot' = _snapshot(m.new_pc, l.code_chars[pc + 1],
                                                  increment(steps), l.code_length,
                                                  tape_window, m)
                         /\ yielded' = increment(yielded)
  /\ UNCHANGED <<program, input_data, max_steps, tape_window, session, call, requests>>

\* The loop has ended: the terminal snapshot is yielded and run returns.
Finish ==
  /\ status = "running"
  /\ \E l \in {StepLocals[program]} :
       /\ pc >= l.code_length
       /\ snapshot' = _snapshot(pc, NoCommand, steps, l.code_length, tape_window,
                                [tape |-> tape, pointer |-> pointer,
                                 output_buffer |-> output_buffer])
  /\ status' = "done"
  /\ yielded' = increment(yielded)
  /\ UNCHANGED <<program, input_data, max_steps, tape_window, tape, pointer,
                 output_buffer, input_iter, pc, steps, session, call, requests>>

Next == Start \/ Execute \/ Finish

(***************************************************************************)
(* Specifications: one per family of programs, all with the same actions.  *)
(***************************************************************************)
InitIf ==
  /\ program \in IfPrograms
  /\ input_data \in [1..1 -> Values]
  /\ Created

InitAddSub ==
  /\ program \in AddSubPrograms
  /\ input_data \in [1..2 -> Values]
  /\ Created

InitAddSubLiteral ==
  /\ program \in AddSubLiteralPrograms
  /\ input_data \in [1..2 -> Values]
  /\ Created

InitAssign ==
  /\ program \in AssignPrograms
  /\ input_data \in [1..2 -> Values]
  /\ Created

InitMul ==
  /\ program \in MulPrograms
  /\ input_data \in [1..2 -> MulValues]
  /\ Created

InitDiv ==
  /\ program \in DivPrograms
  /\ input_data \in {<<t, d>> : t \in 0..MaxDividend, d \in 0..MaxDivisor}
  /\ Created

\* Division by zero, for small dividends and for those at the top of the
\* range; `div x x` divides by zero only when x = 0.
DivZeroPrograms == {<<"div", "x", "y">>, <<"div", "x", "x">>, <<"div_literal", 0>>}

InitDivZero ==
  /\ program \in DivZeroPrograms
  /\ input_data \in {<<t, 0>> : t \in IF program = <<"div", "x", "x">> THEN {0}
                                      ELSE Values \cup (0..MaxDividend)}
  /\ Created

InitFor ==
  /\ program \in ForPrograms
  /\ input_data \in [1..2 -> Values]
  /\ Created

PrintDecValues == {0, 7, 10, 100, 105}

InitPrintDec ==
  /\ program \in PrintDecPrograms
  /\ input_data \in [1..1 -> PrintDecValues]
  /\ Created

\* Bounds of the Brainfuck programs run as they are: the step budgets and the
\* length of the input text.
MaxBudget == 6

MaxInput == 1

InputTexts == UNION {[1..n -> Characters] : n \in 0..MaxInput}

\* step(code, input_data, max_steps) on a program text with the input built
\* by _to_input_bytes, without and with a step budget.
InitStep ==
  /\ program \in BrainfuckPrograms
  /\ input_data \in {_to_input_bytes(data) : data \in InputTexts}
  /\ max_steps \in {NoLimit} \cup (0..MaxBudget)
  /\ tape_window = DefaultWindow
  /\ Fresh
  /\ session = NoSession
  /\ call = NoCall
  /\ requests = NoRequests

Init ==
  \/ InitStep
  \/ InitIf
  \/ InitAddSub
  \/ InitAddSubLiteral
  \/ InitAssign
  \/ InitMul
  \/ InitDiv
  \/ InitDivZero
  \/ InitFor
  \/ InitPrintDec

Spec == Init /\ [][Next]_vars

\* The emitted programs of every family, run on their inputs.
InitEmitted ==
  \/ InitIf
  \/ InitAddSub
  \/ InitAddSubLiteral
  \/ InitAssign
  \/ InitMul
  \/ InitDiv
  \/ InitDivZero
  \/ InitFor
  \/ InitPrintDec

SpecEmitted == InitEmitted /\ [][Next]_vars

SpecStep == InitStep /\ [][Next]_vars

\* step(code, input_data, max_steps) with a step budget.
InitStepBudget == InitStep /\ max_steps # NoLimit

\* A consumer of step (run, a debug session driven to the end) pulls the
\* next snapshot as long as there is one.
SpecStepFair == InitStepBudget /\ [][Next]_vars /\ WF_vars(Next)

SpecIf == InitIf /\ [][Next]_vars

SpecAddSub == InitAddSub /\ [][Next]_vars

\* The loop of run executes the next instruction as long as there is one.
SpecAddSubFair == InitAddSub /\ [][Next]_vars /\ WF_vars(Next)

SpecAddSubLiteral == InitAddSubLiteral /\ [][Next]_vars

SpecAssign == InitAssign /\ [][Next]_vars

SpecMul == InitMul /\ [][Next]_vars

SpecDiv == InitDiv /\ [][Next]_vars

SpecDivZero == InitDivZero /\ [][Next]_vars

SpecFor == InitFor /\ [][Next]_vars

SpecPrintDec == InitPrintDec /\ [][Next]_vars

\* run(code, input_data) on every balanced string of commands.
InitBalanced ==
  /\ program \in BalancedPrograms
  /\ input_data \in {_to_input_bytes(data) : data \in InputTexts}
  /\ Created

SpecBalanced == InitBalanced /\ [][Next]_vars

\* step on the bracket programs, without and with a step budget, and the
\* preflight by itself.
InitPreflight ==
  /\ program \in BracketPrograms
  /\ input_data = << >>
  /\ max_steps \in {0, MaxBudget}
  /\ tape_window = DefaultWindow
  /\ Fresh
  /\ session = NoSession
  /\ call = NoCall
  /\ requests = NoRequests

\* One call of _build_jump_map(code_chars).
BuildJumpMap ==
  /\ call.op = ""
  /\ \E r \in {_build_jump_map(Code(program))} :
       call' = [op |-> "_build_jump_map", args |-> <<Code(program)>>,
                returned |-> IF r.ok THEN <<r.map>> ELSE << >>,
                raised |-> IF r.ok THEN "" ELSE "ValueError"]
  /\ UNCHANGED <<program, input_data, max_steps, tape_window, tape, pointer,
                 output_buffer, input_iter, pc, steps, status, snapshot, yielded,
                 session, requests>>

PreflightNext == Start \/ Execute \/ Finish \/ BuildJumpMap

SpecPreflight == InitPreflight /\ [][PreflightNext]_vars

\* transpile(source) on the programs of every family and on the programs for
\* the type rules.
InitTranspile ==
  /\ program \in ProgramKeys \cup TypedPrograms
  /\ input_data = << >>
  /\ Created

\* One call of transpile: it returns the code or raises.
Transpile ==
  /\ call.op = ""
  /\ \E r \in {self("transpile", <<Source(program)>>)} :
       call' = [op |-> "transpile", args |-> <<program>>,
                returned |-> IF r.error = "" THEN <<r.code>> ELSE << >>,
                raised |-> r.error]
  /\ UNCHANGED <<program, input_data, max_steps, tape_window, tape, pointer,
                 output_buffer, input_iter, pc, steps, status, snapshot, yielded,
                 session, requests>>

SpecTranspile == InitTranspile /\ [][Transpile]_vars

\* The loop of transpile, one statement at a time: call.returned holds the
\* CodeGenState after _emit_intro and after every _emit_statement, call.args
\* the index of the statement emitted last.
EmitIntro ==
  /\ call.op = ""
  /\ call' = [op |-> "_emit_intro", args |-> << >>,
              returned |-> <<self("_emit_intro", <<CodeGenState>>)>>, raised |-> ""]
  /\ UNCHANGED <<program, input_data, max_steps, tape_window, tape, pointer,
                 output_buffer, input_iter, pc, steps, status, snapshot, yielded,
                 session, requests>>

EmitStatement ==
  /\ call.op \in {"_emit_intro", "_emit_statement"}
  /\ call.raised = ""
  /\ \E i \in {IF call.op = "_emit_intro" THEN 1 ELSE call.args[1] + 1} :
       /\ i <= Len(Source(program))
       /\ \E s \in {self("_emit_statement", <<Source(program)[i], call.returned[1]>>)} :
            call' = [op |-> "_emit_statement", args |-> <<i>>,
                     returned |-> <<s>>, raised |-> s.error]
  /\ UNCHANGED <<program, input_data, max_steps, tape_window, tape, pointer,
                 output_buffer, input_iter, pc, steps, status, snapshot, yielded,
                 session, requests>>

GenerateNext == EmitIntro \/ EmitStatement

SpecGenerate == InitTranspile /\ [][GenerateNext]_vars

\* The allocator called on the generator state that the calls so far have
\* left, as the macros call it: at most MaxCalls calls in a row, counted in
\* the first argument.  What a call returns is kept after the state.
MaxCalls == 2

Calls == IF call.op \in {"_emit_intro", "_emit_statement"} THEN 0 ELSE call.args[1]

Allocating ==
  /\ call.op # ""
  /\ call.raised = ""
  /\ Calls < MaxCalls
  /\ UNCHANGED <<program, input_data, max_steps, tape_window, tape, pointer,
                 output_buffer, input_iter, pc, steps, status, snapshot, yielded,
                 session, requests>>

GetScratchCell ==
  /\ Allocating
  /\ \E exclude \in SUBSET {CodeGenState.temp_a, CodeGenState.temp_b} :
       \E g \in {self("_get_scratch_cell", <<call.returned[1], exclude>>)} :
         call' = [op |-> "_get_scratch_cell", args |-> <<Calls + 1, exclude>>,
                  returned |-> <<g.state, g.cell>>, raised |-> ""]

AllocateCell ==
  /\ Allocating
  /\ \E a \in {self("_allocate_cell", <<call.returned[1]>>)} :
       call' = [op |-> "_allocate_cell", args |-> <<Calls + 1>>,
                returned |-> <<a.state, a.cell>>, raised |-> ""]

EnsureCell ==
  /\ Allocating
  /\ \E name \in {"n", "c", "u"}, var_type \in {NUM, CHAR} :
       \E e \in {self("_ensure_cell", <<name, var_type, call.returned[1]>>)} :
         call' = [op |-> "_ensure_cell", args |-> <<Calls + 1, name, var_type>>,
                  returned |-> <<e.state, e.cell>>, raised |-> e.state.error]

AllocatorNext ==
  EmitIntro \/ EmitStatement \/ GetScratchCell \/ AllocateCell \/ EnsureCell

SpecAllocator == InitTranspile /\ [][AllocatorNext]_vars

\* Bounds of the increments: the magnitude, and the distance of the cell
\* from the scratch cell.
MaxMagnitude == 255

MaxDistance == 4

InitScaled ==
  /\ program = <<"raw", << >>>>
  /\ input_data = << >>
  /\ Created

\* _select_scaled_increment(magnitude, distance)
SelectScaledIncrement ==
  /\ call.op = ""
  /\ \E magnitude \in 0..MaxMagnitude, distance \in 1..MaxDistance :
       call' = [op |-> "_select_scaled_increment", args |-> <<magnitude, distance>>,
                returned |-> <<self("_select_scaled_increment", <<magnitude, distance>>)>>,
                raised |-> ""]
  /\ UNCHANGED <<program, input_data, max_steps, tape_window, tape, pointer,
                 output_buffer, input_iter, pc, steps, status, snapshot, yielded,
                 session, requests>>

\* _increment_cell(cell, amount, state) on the state that transpile
\* constructs: the scratch cell is temp_a, or temp_b for the cell temp_a.
IncrementCell ==
  /\ call.op = ""
  /\ \E cell \in 1..(MaxDistance + 1), amount \in (-MaxMagnitude)..MaxMagnitude :
       call' = [op |-> "_increment_cell", args |-> <<cell, amount>>,
                returned |-> <<self("_increment_cell", <<cell, amount, CodeGenState>>)>>,
                raised |-> ""]
  /\ UNCHANGED <<program, input_data, max_steps, tape_window, tape, pointer,
                 output_buffer, input_iter, pc, steps, status, snapshot, yielded,
                 session, requests>>

\* transpile of the one statement `let num value = <literal>`; the parser
\* accepts the literals 0..255.
TranspileLet ==
  /\ call.op = ""
  /\ \E literal \in 0..Min(MaxMagnitude, cell_max) :
       \E r \in {self("transpile", <<<<Let("value", NUM, NumberLiteral(literal))>>>>)} :
         call' = [op |-> "transpile", args |-> <<literal>>,
                  returned |-> IF r.error = "" THEN <<r.code>> ELSE << >>,
                  raised |-> r.error]
  /\ UNCHANGED <<program, input_data, max_steps, tape_window, tape, pointer,
                 output_buffer, input_iter, pc, steps, status, snapshot, yielded,
                 session, requests>>

ScaledNext == SelectScaledIncrement \/ IncrementCell \/ TranspileLet

SpecScaled == InitScaled /\ [][ScaledNext]_vars

\* The parser on sequences of lines and on tokens.
InitParser ==
  /\ program \in LinePrograms \cup Tokens
  /\ input_data = << >>
  /\ Created

\* One call of Parser.parse.
Parse ==
  /\ call.op = ""
  /\ program[1] = "lines"
  /\ \E r \in {parse(program[2])} :
       call' = [op |-> "parse", args |-> <<program[2]>>,
                returned |-> IF r.error = "" THEN <<r.statements>> ELSE << >>,
                raised |-> r.error]
  /\ UNCHANGED <<program, input_data, max_steps, tape_window, tape, pointer,
                 output_buffer, input_iter, pc, steps, status, snapshot, yielded,
                 session, requests>>

\* One call of Parser._parse_expr.
ParseExpr ==
  /\ call.op = ""
  /\ program[1] = "token"
  /\ \E r \in {_parse_expr(program[2])} :
       call' = [op |-> "_parse_expr", args |-> <<program[2]>>,
                returned |-> IF r.error = "" THEN <<r.expr>> ELSE << >>,
                raised |-> r.error]
  /\ UNCHANGED <<program, input_data, max_steps, tape_window, tape, pointer,
                 output_buffer, input_iter, pc, steps, status, snapshot, yielded,
                 session, requests>>

ParserNext == Parse \/ ParseExpr

SpecParser == InitParser /\ [][ParserNext]_vars

\* The text handed to the optimizer: a string of commands, or the stream the
\* generator has emitted for a source program.
Stream(key) == IF key[1] = "raw" THEN key[2] ELSE Generated[key].output

InitOptimizer ==
  /\ program \in {<<"raw", code>> : code \in CommandStrings} \cup ProgramKeys
  /\ input_data = << >>
  /\ Created

\* _optimize_code(code), called on the text first and on what the previous
\* call returned afterwards.
OptimizeCode ==
  /\ \E code \in {IF call.op = "" THEN Stream(program) ELSE call.returned[1]} :
       call' = [op |-> "_optimize_code", args |-> <<code>>,
                returned |-> <<self("_optimize_code", <<code>>)>>, raised |-> ""]
  /\ UNCHANGED <<program, input_data, max_steps, tape_window, tape, pointer,
                 output_buffer, input_iter, pc, steps, status, snapshot, yielded,
                 session, requests>>

SpecOptimizer == InitOptimizer /\ [][OptimizeCode]_vars

(***************************************************************************)
(* The debug session (visualizer.py): a VisualizerSession owns an          *)
(* interpreter and the generator step_iter = interpreter.step(...).  The   *)
(* interpreter variables hold the state of that generator; every session   *)
(* operation is one action.                                                *)
(***************************************************************************)
\* The interpreter and its suspended generator, as a record.
Generator ==
  [tape |-> tape, pointer |-> pointer, output_buffer |-> output_buffer,
   input_iter |-> input_iter, pc |-> pc, steps |-> steps, status |-> status,
   snapshot |-> snapshot, yielded |-> yielded]

\* BrainfuckInterpreter() and interpreter.step(...): nothing has run yet.
new_generator ==
  [tape |-> << >>, pointer |-> 0, output_buffer |-> << >>, input_iter |-> 0,
   pc |-> 0, steps |-> 0, status |-> "created", snapshot |-> NoState, yielded |-> 0]

\* next(self.step_iter): the generator g runs up to its next yield.  Returns
\* [gen, raised]: raised is "" when a snapshot (gen.snapshot) was yielded,
\* and the exception otherwise; a generator that has returned or raised is
\* exhausted and raises StopIteration.  env holds the arguments of step.
resume(env, g) ==
  LET yield(m, command, next_pc, step, state) ==
        [gen |-> [tape |-> m.tape, pointer |-> m.pointer,
                  output_buffer |-> m.output_buffer, input_iter |-> m.input_iter,
                  pc |-> next_pc, steps |-> step, status |-> state,
                  snapshot |-> _snapshot(next_pc, command, step, env.l.code_length,
                                         env.tape_window, m),
                  yielded |-> increment(g.yielded)],
         raised |-> ""]
      fail(m, error) ==
        [gen |-> [g EXCEPT !.tape = m.tape, !.pointer = m.pointer,
                           !.output_buffer = m.output_buffer,
                           !.input_iter = m.input_iter, !.status = error],
         raised |-> error]
      execute(m, command, from) ==
        IF m.error # "" THEN fail(m, m.error)
        ELSE yield(m, command, m.new_pc, increment(from.steps), "running")
      body(from) ==
        IF from.pc < env.l.code_length
        THEN IF step_limit_reached(env.max_steps, from.steps)
             THEN fail(from, "StepLimitExceeded")
             ELSE execute(_execute_instruction(
                            env.l.code_chars[from.pc + 1], from.pc, env.l.jump_map.map,
                            env.input_values,
                            [tape |-> from.tape, pointer |-> from.pointer,
                             output_buffer |-> from.output_buffer,
                             input_iter |-> from.input_iter,
                             new_pc |-> from.pc, error |-> ""]),
                          env.l.code_chars[from.pc + 1], from)
        ELSE yield(from, NoCommand, from.pc, from.steps, "done")
  IN  IF g.status = "created"
      THEN IF env.l.jump_map.ok THEN body(new_generator) ELSE fail(new_generator, "ValueError")
      ELSE IF g.status = "running" THEN body(g)
      ELSE [gen |-> g, raised |-> "StopIteration"]

\* _initial_state(): the snapshot of a new interpreter before any step.
_initial_state(env) ==
  _snapshot(0, NoCommand, 0, env.l.code_length, env.tape_window, new_generator)

\* A history that never drops its oldest entry.
_record_state_unbounded(v, state) ==
  [v EXCEPT !.history = Append(@, state), !.last_state = state]

\* _record_state(state) on the session fields v.
_record_state(v, state) ==
  LET appended == Append(v.history, state)
  IN  [v EXCEPT !.history = IF Len(appended) > v.history_limit THEN Tail(appended)
                            ELSE appended,
                !.last_state = state]

\* _init_interpreter() on s = [gen, session, returned, raised].
_init_interpreter(env, s) ==
  [s EXCEPT !.gen = new_generator,
            !.session = _record_state([@ EXCEPT !.finished = FALSE], _initial_state(env))]

\* restart()
restart(env, s) == _init_interpreter(env, s)

\* __post_init__ of a session with the given history_limit.
__post_init__(env, limit) ==
  _init_interpreter(env,
    [gen |-> new_generator,
     session |-> [breakpoints |-> {}, history |-> << >>,
                  hit_breakpoint |-> NoBreakpoint, finished |-> FALSE,
                  last_state |-> NoState, history_limit |-> limit],
     returned |-> << >>, raised |-> ""])

\* A test that takes the terminal snapshot for an ordinary one.
is_terminal_never(state, code_length) == FALSE

\* state.command is None and state.pc >= len(self.code)
is_terminal(state, code_length) == state.command = NoCommand /\ state.pc >= code_length

\* A test that looks one instruction back.
at_breakpoint_behind(state, breakpoints) == state.pc - 1 \in breakpoints

\* A test that looks one instruction ahead.
at_breakpoint_ahead(state, breakpoints) == state.pc + 1 \in breakpoints

\* state.pc in self.breakpoints
at_breakpoint(state, breakpoints) == state.pc \in breakpoints

\* Faulty variant: StepLimitExceeded leaves the method without finished set.
RECURSIVE step_forward_loop_unfinished(_, _, _)
step_forward_loop_unfinished(env, s, remaining) ==
  LET taken(r, state) ==
        LET recorded == [s EXCEPT !.gen = r.gen,
                                  !.session = _record_state(@, state),
                                  !.returned = Append(@, state)]
        IN  IF is_terminal(state, env.l.code_length)
            THEN [recorded EXCEPT !.session.finished = TRUE]
            ELSE IF at_breakpoint(state, s.session.breakpoints)
            THEN [recorded EXCEPT !.session.hit_breakpoint = state.pc]
            ELSE step_forward_loop_unfinished(env, recorded, remaining - 1)
      pulled(r) ==
        IF r.raised = "StopIteration"
        THEN [s EXCEPT !.gen = r.gen, !.session.finished = TRUE]
        ELSE IF r.raised # ""
        THEN [s EXCEPT !.gen = r.gen, !.returned = << >>, !.raised = r.raised]
        ELSE taken(r, r.gen.snapshot)
  IN  IF remaining = 0 \/ s.session.finished THEN s ELSE pulled(resume(env, s.gen))

\* The for loop of step_forward with `remaining` iterations to go; states is
\* s.returned.
RECURSIVE step_forward_loop(_, _, _)
step_forward_loop(env, s, remaining) ==
  LET taken(r, state) ==
        LET recorded == [s EXCEPT !.gen = r.gen,
                                  !.session = _record_state(@, state),
                                  !.returned = Append(@, state)]
        IN  IF is_terminal(state, env.l.code_length)
            THEN [recorded EXCEPT !.session.finished = TRUE]
            ELSE IF at_breakpoint(state, s.session.breakpoints)
            THEN [recorded EXCEPT !.session.hit_breakpoint = state.pc]
            ELSE step_forward_loop(env, recorded, remaining - 1)
      pulled(r) ==
        IF r.raised = "StopIteration"
        THEN [s EXCEPT !.gen = r.gen, !.session.finished = TRUE]
        ELSE IF r.raised = "StepLimitExceeded"
        THEN [s EXCEPT !.gen = r.gen, !.session.finished = TRUE, !.returned = << >>,
                       !.raised = r.raised]
        ELSE IF r.raised # ""
        THEN [s EXCEPT !.gen = r.gen, !.returned = << >>, !.raised = r.raised]
        ELSE taken(r, r.gen.snapshot)
  IN  IF remaining = 0 \/ s.session.finished THEN s ELSE pulled(resume(env, s.gen))

\* Faulty variant: hit_breakpoint is cleared before the count is tested.
step_forward_clearing(env, s, count) ==
  LET after(t) ==
        IF t.raised = "" /\ t.returned = << >> /\ t.session.finished
        THEN [t EXCEPT !.session.hit_breakpoint = NoBreakpoint]
        ELSE t
      cleared == [s EXCEPT !.session.hit_breakpoint = NoBreakpoint,
                           !.returned = << >>, !.raised = ""]
  IN  IF count <= 0 THEN cleared ELSE after(step_forward_loop(env, cleared, count))

\* step_forward(count): s.returned is the list returned, s.raised the
\* exception that left the method ("" when it returned; nothing is returned
\* when it raised).
step_forward(env, s, count) ==
  LET after(t) ==
        IF t.raised = "" /\ t.returned = << >> /\ t.session.finished
        THEN [t EXCEPT !.session.hit_breakpoint = NoBreakpoint]
        ELSE t
  IN  IF count <= 0 THEN [s EXCEPT !.returned = << >>, !.raised = ""]
      ELSE after(step_forward_loop(
                   env,
                   [s EXCEPT !.session.hit_breakpoint = NoBreakpoint,
                             !.returned = << >>, !.raised = ""],
                   count))

\* The while loop of run_until_break: limit = NoLimit stands for None.
RECURSIVE run_until_break_loop(_, _, _, _, _)
run_until_break_loop(env, s, limit, states, executed) ==
  LET stepped(t) ==
        IF t.raised # "" THEN [t EXCEPT !.returned = << >>]
        ELSE IF t.returned = << >> THEN [t EXCEPT !.returned = states]
        ELSE IF t.session.hit_breakpoint # NoBreakpoint
        THEN [t EXCEPT !.returned = states \o @]
        ELSE run_until_break_loop(env, t, limit, states \o t.returned, executed + 1)
  IN  IF limit = NoLimit \/ executed < limit
      THEN stepped(step_forward(env, s, 1))
      ELSE [s EXCEPT !.returned = states, !.raised = ""]

\* run_until_break that does not count the snapshots it takes.
run_until_break_unlimited(env, s, limit) == run_until_break_loop(env, s, NoLimit, << >>, 0)

\* run_until_break(limit)
run_until_break(env, s, limit) == run_until_break_loop(env, s, limit, << >>, 0)

\* add_breakpoint(pc), remove_breakpoint(pc), clear_breakpoints(): on the
\* session fields v.
add_breakpoint(v, at) == [v EXCEPT !.breakpoints = @ \cup {at}]

remove_breakpoint(v, at) == [v EXCEPT !.breakpoints = @ \ {at}]

clear_breakpoints(v) == [v EXCEPT !.breakpoints = {}]

\* SessionStore.reset(session_id): session.history.clear(),
\* session.hit_breakpoint = None, session.restart().
reset(env, s) ==
  restart(env, [s EXCEPT !.session.history = << >>,
                         !.session.hit_breakpoint = NoBreakpoint])

\* Bounds of the session operations: the history_limit of the session, the
\* count of step_forward and the limit of run_until_break.
MaxHistory == 3

MaxCount == 3

\* The arguments the session passes to step.
Env ==
  [l |-> StepLocals[program], input_values |-> input_data, max_steps |-> max_steps,
   tape_window |-> tape_window]

\* The session and its generator before an operation.
Session == [gen |-> Generator, session |-> session, returned |-> << >>, raised |-> ""]

\* The state s after the operation op(args) has returned or raised.
Becomes(s, op, args) ==
  /\ tape' = s.gen.tape
  /\ pointer' = s.gen.pointer
  /\ output_buffer' = s.gen.output_buffer
  /\ input_iter' = s.gen.input_iter
  /\ pc' = s.gen.pc
  /\ steps' = s.gen.steps
  /\ status' = s.gen.status
  /\ snapshot' = s.gen.snapshot
  /\ yielded' = s.gen.yielded
  /\ session' = s.session
  /\ call' = [op |-> op, args |-> args, returned |-> s.returned, raised |-> s.raised]
  /\ UNCHANGED <<program, input_data, max_steps, tape_window>>

\* step_forward(count) with a negative count, with 0 and with counts up to
\* MaxCount
StepForward ==
  /\ \E n \in (-1)..MaxCount :
       \E s \in {step_forward(Env, Session, n)} : Becomes(s, "step_forward", <<n>>)
  /\ UNCHANGED requests

RunUntilBreak ==
  /\ \E limit \in {NoLimit} \cup (1..MaxCount) :
       \E s \in {run_until_break(Env, Session, limit)} :
         Becomes(s, "run_until_break", <<limit>>)
  /\ UNCHANGED requests

Restart ==
  /\ \E s \in {restart(Env, Session)} : Becomes(s, "restart", << >>)
  /\ UNCHANGED requests

AddBreakpoint ==
  /\ \E at \in 0..StepLocals[program].code_length :
       Becomes([Session EXCEPT !.session = add_breakpoint(@, at)],
               "add_breakpoint", <<at>>)
  /\ UNCHANGED requests

RemoveBreakpoint ==
  /\ \E at \in 0..StepLocals[program].code_length :
       Becomes([Session EXCEPT !.session = remove_breakpoint(@, at),
                               !.returned = <<at \in session.breakpoints>>],
               "remove_breakpoint", <<at>>)
  /\ UNCHANGED requests

ClearBreakpoints ==
  /\ \E v \in {clear_breakpoints(session)} :
       Becomes([Session EXCEPT !.session = v], "clear_breakpoints", << >>)
  /\ UNCHANGED requests

Reset ==
  /\ \E s \in {reset(Env, Session)} : Becomes(s, "reset", << >>)
  /\ UNCHANGED requests

SessionNext ==
  \/ StepForward
  \/ RunUntilBreak
  \/ Restart
  \/ AddBreakpoint
  \/ RemoveBreakpoint
  \/ ClearBreakpoints
  \/ Reset

\* The programs of the sessions; the loop that never ends is stepped with a
\* budget only, so that run_until_break(None) returns or raises.
SessionTexts == {"", "+", "+++.", "+[]", "<", ",."}

SessionBudgets(key) == IF key = <<"bf", "+[]">> THEN {1, MaxBudget} ELSE {NoLimit, 1}

\* VisualizerSession(code, input_template, max_steps, history_limit)
Constructed ==
  /\ program \in {<<"bf", code>> : code \in SessionTexts}
  /\ input_data = _to_input_bytes(<<"LATIN CAPITAL LETTER A">>)
  /\ max_steps \in SessionBudgets(program)
  /\ tape_window = DefaultWindow
  /\ Fresh
  /\ \E limit \in 1..MaxHistory : session = __post_init__(Env, limit).session
  /\ call = NoCall

InitSession == Constructed /\ requests = NoRequests

SpecSession == InitSession /\ [][SessionNext]_vars

(***************************************************************************)
(* The session registry behind the request handlers.  Every handler looks  *)
(* the record up with SessionStore.get, which holds the lock of the        *)
(* registry for the lookup only, and then works on the session.  A request *)
(* is [op, at, args]: its handler, how far it has come and its payload.    *)
(* Two threads are interleaved between statements of SessionStore.reset    *)
(* and between the statements of step_forward before and from its loop.    *)
(***************************************************************************)
MaxRequests == 2

Requests == 1..MaxRequests

Idle == [op |-> "", at |-> "idle", args |-> << >>]

\* The request r is now at `at`.
Moves(r, at) == requests' = [requests EXCEPT ![r].at = at]

\* step_forward(count), count >= 1, from its for loop on: hit_breakpoint has
\* been cleared before.
step_forward_from(env, s, count) ==
  LET after(t) ==
        IF t.raised = "" /\ t.returned = << >> /\ t.session.finished
        THEN [t EXCEPT !.session.hit_breakpoint = NoBreakpoint]
        ELSE t
  IN  after(step_forward_loop(env, [s EXCEPT !.returned = << >>, !.raised = ""], count))

\* reset_session, step_session(count) or run_session(limit) has arrived
\* and has got the record: session_store.get(session_id).
Get ==
  /\ \E r \in Requests :
       /\ requests[r].at = "idle"
       /\ \E q \in {<<"reset", << >>>>}
                     \cup {<<"step", <<n>>>> : n \in 1..MaxCount}
                     \cup {<<"run", <<limit>>>> : limit \in {NoLimit, 1}} :
            requests' = [requests EXCEPT ![r] = [op |-> q[1], at |-> "got", args |-> q[2]]]
  /\ UNCHANGED <<program, input_data, max_steps, tape_window, tape, pointer,
                 output_buffer, input_iter, pc, steps, status, snapshot, yielded,
                 session, call>>

\* SessionStore.reset: session.history.clear()
ResetClearHistory ==
  /\ \E r \in Requests :
       /\ requests[r].op = "reset" /\ requests[r].at = "got"
       /\ Moves(r, "cleared")
  /\ session' = [session EXCEPT !.history = << >>]
  /\ UNCHANGED <<program, input_data, max_steps, tape_window, tape, pointer,
                 output_buffer, input_iter, pc, steps, status, snapshot, yielded,
                 call>>

\* SessionStore.reset: session.hit_breakpoint = None
ResetClearHit ==
  /\ \E r \in Requests :
       /\ requests[r].op = "reset" /\ requests[r].at = "cleared"
       /\ Moves(r, "unmarked")
  /\ session' = [session EXCEPT !.hit_breakpoint = NoBreakpoint]
  /\ UNCHANGED <<program, input_data, max_steps, tape_window, tape, pointer,
                 output_buffer, input_iter, pc, steps, status, snapshot, yielded,
                 call>>

\* SessionStore.reset: session.restart(), and the request is answered.
ResetRestart ==
  /\ \E r \in Requests :
       /\ requests[r].op = "reset" /\ requests[r].at = "unmarked"
       /\ Moves(r, "done")
  /\ \E s \in {restart(Env, Session)} : Becomes(s, "reset", << >>)

\* step_session: session.step_forward(payload.count) up to its loop, which
\* clears hit_breakpoint.
StepForwardBegin ==
  /\ \E r \in Requests :
       /\ requests[r].op = "step" /\ requests[r].at = "got"
       /\ Moves(r, "stepping")
  /\ session' = [session EXCEPT !.hit_breakpoint = NoBreakpoint]
  /\ UNCHANGED <<program, input_data, max_steps, tape_window, tape, pointer,
                 output_buffer, input_iter, pc, steps, status, snapshot, yielded,
                 call>>

\* step_session: the loop of step_forward and its return; the request is
\* answered.
StepForwardLoop ==
  \E r \in Requests :
    /\ requests[r].op = "step" /\ requests[r].at = "stepping"
    /\ Moves(r, "done")
    /\ \E s \in {step_forward_from(Env, Session, requests[r].args[1])} :
         Becomes(s, "step_forward", requests[r].args)

\* run_session: session.run_until_break(payload.limit); the request is
\* answered.
RunSession ==
  \E r \in Requests :
    /\ requests[r].op = "run" /\ requests[r].at = "got"
    /\ Moves(r, "done")
    /\ \E s \in {run_until_break(Env, Session, requests[r].args[1])} :
         Becomes(s, "run_until_break", requests[r].args)

StoreNext ==
  \/ Get
  \/ ResetClearHistory
  \/ ResetClearHit
  \/ ResetRestart
  \/ StepForwardBegin
  \/ StepForwardLoop
  \/ RunSession

\* A session in the registry and MaxRequests requests for its id.
InitStore == Constructed /\ requests = [r \in Requests |-> Idle]

SpecStore == InitStore /\ [][StoreNext]_vars

(***************************************************************************)
(* Properties of the emitted programs                                      *)
(***************************************************************************)
Done == status = "done"

\* The run has left the loop of step, normally or by an exception.
Ended == status \notin {"created", "running"}

\* The value of a source variable: the cell the generator gave it.
var(name) == cell_value(tape, Generated[program].cell_map[name])

\* The value a variable of the ReadXY prelude has before the last statement.
entry(name) ==
  IF name = "x" THEN input_data[1] ELSE IF name = "y" THEN input_data[2] ELSE 7

Occurrences(seq, value) == Cardinality({i \in DOMAIN seq : seq[i] = value})

\* How often the then-block and the else-block of the `if` program ran: every
\* run of print_a and copy_print_a writes one 'A', every run of count adds 1
\* to n, every run of print_b writes one 'B'.
ThenRuns ==
  IF program[2] = "count" THEN var("n") ELSE Occurrences(output_buffer, 65)

ElseRuns == Occurrences(output_buffer, 66)

\* C1: `if f { A } else { B }` runs A exactly once when f # 0 and not at all
\* when f = 0, and runs B exactly once when f = 0 and not at all when f # 0,
\* for every A and B, blocks that only print included.
IfRunsOneBranchOnce ==
  Done =>
    /\ ThenRuns = (IF input_data[1] # 0 THEN 1 ELSE 0)
    /\ ElseRuns = (IF input_data[1] = 0 /\ program[3] = "print_b" THEN 1 ELSE 0)

\* C2: the run of every accepted program ends, with no step limit.
RunTerminates == <>Ended

AddSubResult ==
  LET d == entry(program[2])
      s == entry(program[3])
  IN  IF program[1] = "add" THEN (d + s) % 256 ELSE (d - s) % 256

\* C3: `add dst src` leaves dst = (d + s) mod 256 and `sub dst src` leaves
\* dst = (d - s) mod 256, also when dst and src are the same variable; every
\* other variable (src included when it is another variable) keeps its value.
AddSubVariable ==
  Done =>
    /\ var(program[2]) = AddSubResult
    /\ \A name \in {"x", "y", "z"} \ {program[2]} : var(name) = entry(name)

\* The divisor of the `div` program: the literal, or the value of the
\* variable at the statement (the target's own value for `div x x`).
Divisor == IF program[1] = "div_literal" THEN program[2] ELSE entry(program[3])

\* C4: with a divisor d # 0 (a literal, another variable, or the target
\* itself) `div x d` leaves x = floor(x / d) and every other variable, a
\* divisor variable included, unchanged.
DivNonZero ==
  Done /\ Divisor # 0 =>
    /\ var("x") = entry("x") \div Divisor
    /\ var("y") = entry("y")
    /\ var("z") = entry("z")

\* The bounds and the body of the `for` program.
ForStart == IF program[1] = "for_literal" THEN program[2] ELSE input_data[1]

ForEnd == IF program[1] = "for_literal" THEN program[3] ELSE input_data[2]

ForBody == IF program[1] = "for_literal" THEN "count" ELSE program[2]

\* C5: `for i from a to b { body }` runs body (b - a) mod 256 times (n
\* counts the runs), whatever body assigns to i or to the variables used as
\* bounds; i = b afterwards when body does not assign i.
ForRunsCountTimes ==
  Done =>
    /\ var("n") = (ForEnd - ForStart) % 256
    /\ ForBody # "count_assign_i" => var("i") = ForEnd

\* The loop has run 256 - (a - b) times for b < a, with a body that moves
\* both bounds.
ForWrapsAround ==
  /\ Done
  /\ program = <<"for", "count_move_bounds">>
  /\ input_data[1] > input_data[2]
  /\ var("n") = 256 - (input_data[1] - input_data[2])
  /\ var("i") = input_data[2]

Multiplier == IF program[1] = "mul_literal" THEN program[2] ELSE entry(program[3])

\* C6: `mul x k` leaves x = (x * k) mod 256 for a literal, another variable
\* or x itself as operand; every other variable is unchanged.
MulResult ==
  Done =>
    /\ var("x") = (entry("x") * Multiplier) % 256
    /\ var("y") = entry("y")
    /\ var("z") = entry("z")

\* A square that wraps around: 20 * 20 = 400 = 144 mod 256.
MulSelfWraps ==
  /\ Done
  /\ program = <<"mul", "x", "x">>
  /\ input_data[1] = 20
  /\ var("x") = 144

\* The ASCII codes of the decimal digits of v, without leading zeros.
Decimal(v) ==
  IF v >= 100 THEN <<48 + (v \div 100), 48 + ((v \div 10) % 10), 48 + (v % 10)>>
  ELSE IF v >= 10 THEN <<48 + (v \div 10), 48 + (v % 10)>>
  ELSE <<48 + v>>

\* C7: `print_dec x` writes the decimal digits of x without leading zeros,
\* inner and trailing zeros kept, and leaves x unchanged.
PrintDecOutput ==
  Done => output_buffer = Decimal(input_data[1]) /\ var("x") = input_data[1]

\* 105 is written as "105".
PrintDecInnerZero ==
  Done /\ input_data[1] = 105 /\ output_buffer = <<49, 48, 53>>

\* C8: `add x k` leaves x = (x + k) mod 256 and `sub x k` leaves
\* x = (x - k) mod 256 for a literal k, emitted as a linear run or as a
\* scaled loop; no other variable changes.
AddSubLiteral ==
  Done =>
    /\ var("x") = (IF program[1] = "add_literal" THEN entry("x") + program[2]
                   ELSE entry("x") - program[2]) % 256
    /\ var("y") = entry("y")
    /\ var("z") = entry("z")

\* A scaled loop with a remainder has subtracted 29 below zero.
SubLiteralScaledWraps ==
  /\ Done
  /\ program = <<"sub_literal", 29>>
  /\ _select_scaled_increment(29, 2).remainder # 0
  /\ input_data[1] = 1
  /\ var("x") = 228

\* The variable assigned by the `let`/`set` program and the value of the
\* expression assigned to it.
AssignTarget == IF program[1] \in {"let_new", "let_new_literal"} THEN "w" ELSE "x"

AssignValue ==
  IF program[1] \in {"set", "let"} THEN entry(program[3])
  ELSE IF program[1] = "let_new" THEN entry(program[2])
  ELSE program[2]

\* C9: `let <type> target = e` and `set target = e` leave target equal to
\* the value of e (a literal, another variable, or the target itself) and
\* every other variable, a source variable included, unchanged.
AssignResult ==
  Done =>
    /\ var(AssignTarget) = AssignValue
    /\ \A name \in {"x", "y", "z"} \ {AssignTarget} : var(name) = entry(name)

\* `set x = x` has kept a non-zero x.
SetSelfKeepsValue ==
  /\ Done
  /\ program = <<"set", "x", "x">>
  /\ input_data[1] = 255
  /\ var("x") = 255

\* Steps within which every run of a `div` by zero ends.
DivZeroMaxSteps == 700

\* C10: `div x e` with e the literal 0 or a variable holding 0 compiles,
\* ends (within DivZeroMaxSteps steps), and leaves x = 0; the divisor
\* variable stays 0.
DivByZero ==
  Divisor = 0 =>
    /\ Transpiled[program].error = ""
    /\ status \in {"created", "running", "done"}
    /\ steps <= DivZeroMaxSteps
    /\ Done => var("x") = 0 /\ var("y") = entry("y") /\ var("z") = entry("z")

\* A non-zero dividend has been divided by a variable holding 0.
DivByZeroVariable ==
  /\ Done
  /\ program = <<"div", "x", "y">>
  /\ input_data[1] = 255
  /\ input_data[2] = 0
  /\ var("x") = 0
  /\ var("y") = 0

(***************************************************************************)
(* Properties of the stepping interpreter                                  *)
(***************************************************************************)
\* The loop of step without a step budget, run for at most `fuel`
\* instructions from the loop state g: status "done" when the loop has
\* ended, an exception when an instruction raised it, and "running" when the
\* loop needs one more instruction than `fuel`.
RECURSIVE unbudgeted(_, _, _, _)
unbudgeted(l, input_values, g, fuel) ==
  LET go(m) ==
        IF m.error # "" THEN [g EXCEPT !.status = m.error]
        ELSE unbudgeted(l, input_values,
                        [g EXCEPT !.machine = m, !.pc = m.new_pc, !.steps = @ + 1],
                        fuel - 1)
  IN  IF g.status # "running" THEN g
      ELSE IF g.pc >= l.code_length THEN [g EXCEPT !.status = "done"]
      ELSE IF fuel = 0 THEN g
      ELSE go(_execute_instruction(l.code_chars[g.pc + 1], g.pc, l.jump_map.map,
                                   input_values, g.machine))

\* The run of the program of this behaviour without a budget, for at most
\* `fuel` instructions.
Unbudgeted(fuel) ==
  LET from(l) ==
        unbudgeted(l, input_data,
                   [machine |-> [tape |-> << >>, pointer |-> 0, output_buffer |-> << >>,
                                 input_iter |-> 0, new_pc |-> 0, error |-> ""],
                    pc |-> 0, steps |-> 0,
                    status |-> IF l.jump_map.ok THEN "running" ELSE "ValueError"],
                   fuel)
  IN  from(StepLocals[program])

LoopForever == <<"bf", "+[]">>

\* With a budget m the run executes at most m instructions.  When it has
\* ended: a program that ends within m instructions without a budget ends in
\* the same way with it (normally with the terminal snapshot yielded, or by
\* its own exception), and a program that needs an (m+1)-th instruction has
\* raised StepLimitExceeded after exactly m instructions and m snapshots.
WithinBudget ==
  LET same(free) ==
        IF free.status = "running"
        THEN status = "StepLimitExceeded" /\ steps = max_steps /\ yielded = max_steps
        ELSE /\ status = free.status
             /\ steps = free.steps
             /\ Done => yielded = steps + 1 /\ snapshot.command = NoCommand
  IN  max_steps # NoLimit =>
        /\ steps <= max_steps
        /\ yielded <= max_steps + 1
        /\ Ended => same(Unbudgeted(max_steps))

\* C11: with a finite max_steps = m at most m instructions are executed: a
\* program that completes within m instructions ends normally, a program
\* that needs an (m+1)-th instruction raises StepLimitExceeded after exactly
\* m snapshots, and the endless loop +[] always ends in StepLimitExceeded.
StepLimit ==
  /\ []WithinBudget
  /\ (program = LoopForever /\ max_steps # NoLimit) ~> (status = "StepLimitExceeded")

\* +[] has used up the largest budget: StepLimitExceeded after as many
\* snapshots.
StepLimitRaised ==
  /\ program = LoopForever
  /\ max_steps = MaxBudget
  /\ status = "StepLimitExceeded"
  /\ yielded = MaxBudget

\* A snapshot that is not the terminal one: taken after an instruction.
Taken == yielded > 0 /\ status # "done"

\* Every pull of step that yields hands out one snapshot.  The one yielded
\* after the k-th instruction has step = k, the instruction just executed as
\* command and the index of the next instruction as pc; the one yielded when
\* the loop has ended is the terminal snapshot with command none, pc =
\* code_length and step = the number of instructions executed.
YieldsOne ==
  LET yields(l) ==
        /\ Execute /\ status' = "running" =>
              /\ yielded' = yielded + 1
              /\ snapshot'.step = yielded'
              /\ snapshot'.step = steps'
              /\ snapshot'.command = l.code_chars[pc + 1]
              /\ snapshot'.pc = pc'
              /\ snapshot'.pc = IF snapshot'.command \in {"[", "]"} /\ pc' # pc + 1
                                THEN l.jump_map.map[pc + 1] ELSE pc + 1
        /\ Finish =>
              /\ yielded' = yielded + 1
              /\ snapshot'.step = steps
              /\ snapshot'.command = NoCommand
              /\ snapshot'.pc = l.code_length
              /\ yielded' = steps + 1
        /\ ~(Execute /\ status' = "running") /\ ~Finish =>
              UNCHANGED <<snapshot, yielded>>
  IN  steps' < StepCap => yields(StepLocals[program])

\* C12: a balanced program that executes n instructions yields exactly n+1
\* snapshots: the k-th has step = k, command = the instruction just executed
\* and pc = the index of the next instruction; the last is the single
\* terminal snapshot with command = none, pc = code_length and step = n; an
\* empty program yields only the terminal snapshot.
SnapshotSequence ==
  /\ [][YieldsOne]_vars
  /\ [](Done /\ steps < StepCap =>
          /\ yielded = steps + 1
          /\ snapshot.command = NoCommand
          /\ snapshot.pc = StepLocals[program].code_length
          /\ snapshot.step = steps
          /\ (program = <<"bf", "">> => yielded = 1))

\* The loop ++[-] has run to its end: 7 instructions, 8 snapshots.
SnapshotSequenceOfLoop ==
  /\ program = <<"bf", "++[-]">>
  /\ Done
  /\ steps = 7
  /\ yielded = 8
  /\ snapshot.pc = 5

\* C13: in every reachable interpreter state every tape cell holds a value
\* in 0..255, for every program and every input sequence built from the code
\* points of an input text.
CellsAreBytes == \A index \in DOMAIN tape : tape[index] \in cell_min..cell_max

\* C14: the pointer satisfies 0 <= pointer < 30000 in every reachable state,
\* the state left behind by the failing `<` or `>` included.
PointerOnTape == 0 <= pointer /\ pointer < tape_length

(***************************************************************************)
(* Properties of the debug session                                         *)
(***************************************************************************)
\* C15: after restart(), in whatever state the session was, history holds
\* exactly one entry, the new initial snapshot (step 0, pc 0), finished is
\* false and hit_breakpoint is none, and the stepper is a fresh one.
RestartLeavesInitialSnapshot ==
  call.op = "restart" =>
    /\ session.history = <<_initial_state(Env)>>
    /\ session.last_state = _initial_state(Env)
    /\ ~session.finished
    /\ session.hit_breakpoint = NoBreakpoint
    /\ Generator = new_generator

\* The last operation was step_forward(n) with n >= 1 and has returned.
SteppedForward == call.op = "step_forward" /\ call.args[1] >= 1 /\ call.raised = ""

\* The pcs of the snapshots that the last operation returned.
ReturnedPcs == [i \in 1..Len(call.returned) |-> call.returned[i].pc]

\* C16: step_forward(n) with n >= 1 stops at the first produced snapshot
\* whose pc is in breakpoints and sets hit_breakpoint to that pc; it returns
\* the snapshots taken, at most n, of which only the last can have its pc in
\* breakpoints; when it stops for any other reason hit_breakpoint is none.
StepForwardStopsAtBreakpoint ==
  LET stopped(pcs, n) ==
        /\ Len(pcs) <= n
        /\ \A i \in 1..(Len(pcs) - 1) : pcs[i] \notin session.breakpoints
        /\ session.hit_breakpoint =
             IF pcs # << >> /\ pcs[Len(pcs)] \in session.breakpoints
             THEN pcs[Len(pcs)] ELSE NoBreakpoint
  IN  SteppedForward => stopped(ReturnedPcs, call.args[1])

\* The snapshot was yielded after an instruction, not at the end of the run.
AfterInstruction(state) == state.command # NoCommand

\* step_forward(n) with n >= 1 stops at the first produced snapshot, other
\* than the terminal one, whose pc is in breakpoints and sets hit_breakpoint
\* to that pc; the terminal snapshot ends it with finished = true and
\* hit_breakpoint none, also when its pc is in breakpoints.  It returns the
\* snapshots taken, consecutive and at most n, the last of them being
\* last_state; only the last can have its pc in breakpoints; fewer than n are
\* returned only at a breakpoint or when the session has finished.
StepForwardStopsAtInstructionBreakpoint ==
  LET stopped(r, n) ==
        /\ Len(r) <= n
        /\ \A i \in 1..(Len(r) - 1) :
              /\ r[i].pc \notin session.breakpoints
              /\ AfterInstruction(r[i])
              /\ r[i + 1].step = IF AfterInstruction(r[i + 1]) THEN r[i].step + 1
                                 ELSE r[i].step
        /\ r # << >> => session.last_state = r[Len(r)]
        /\ session.hit_breakpoint =
             IF r # << >> /\ AfterInstruction(r[Len(r)])
                  /\ r[Len(r)].pc \in session.breakpoints
             THEN r[Len(r)].pc ELSE NoBreakpoint
        /\ session.finished = (r = << >> \/ ~AfterInstruction(r[Len(r)]))
        /\ Len(r) < n => session.finished \/ session.hit_breakpoint # NoBreakpoint
  IN  SteppedForward => stopped(call.returned, call.args[1])

\* step_forward(MaxCount) on +++. with a breakpoint at 2 has stopped there
\* after two snapshots.
StepForwardStoppedEarly ==
  /\ SteppedForward
  /\ program = <<"bf", "+++.">>
  /\ call.args = <<MaxCount>>
  /\ ReturnedPcs = <<1, 2>>
  /\ session.breakpoints = {2}
  /\ session.hit_breakpoint = 2
  /\ ~session.finished

\* The last operation was run_until_break(limit).
RanUntilBreak == call.op = "run_until_break"

\* A breakpoint stopped the run: the last snapshot returned was taken after
\* an instruction and its pc is in breakpoints.
StoppedAtBreakpoint(r) ==
  r # << >> /\ AfterInstruction(r[Len(r)]) /\ r[Len(r)].pc \in session.breakpoints

\* run_until_break(limit) has returned at a breakpoint, at the end of the
\* program or with limit snapshots, never with more, and hit_breakpoint is
\* set exactly at a breakpoint; or it has raised the StepLimitExceeded of
\* the stepper.
RunUntilBreakReturns ==
  LET returns(r, limit) ==
        /\ limit # NoLimit => Len(r) <= limit
        /\ \A i \in 1..(Len(r) - 1) :
              AfterInstruction(r[i]) /\ r[i].pc \notin session.breakpoints
        /\ session.hit_breakpoint =
             IF StoppedAtBreakpoint(r) THEN r[Len(r)].pc ELSE NoBreakpoint
        /\ \/ StoppedAtBreakpoint(r)
           \/ session.finished
           \/ limit # NoLimit /\ Len(r) = limit
        /\ r # << >> => session.last_state = r[Len(r)]
      raises ==
        /\ status = "StepLimitExceeded"
        /\ steps = max_steps
        /\ session.finished
        /\ session.hit_breakpoint = NoBreakpoint
  IN  RanUntilBreak =>
        /\ call.raised = "" => returns(call.returned, call.args[1])
        /\ call.raised = "StepLimitExceeded" => raises

\* The stepper raises StepLimitExceeded during run_until_break: the caller
\* gets the exception.
StepLimitPropagates ==
  call'.op = "run_until_break" /\ status # "StepLimitExceeded"
      /\ status' = "StepLimitExceeded"
    => call'.raised = "StepLimitExceeded"

\* C17: run_until_break(limit), limit none or >= 1, returns as soon as a
\* breakpoint is hit, the program finishes or limit snapshots have been
\* taken; it never returns more than limit snapshots; on return
\* hit_breakpoint is set, to the pc of the last returned snapshot, if and
\* only if a breakpoint stopped it; a StepLimitExceeded of the stepper
\* propagates to the caller.
RunUntilBreakStops == []RunUntilBreakReturns /\ [][StepLimitPropagates]_vars

\* run_until_break(2) on +++. with a breakpoint at 3 has returned after two
\* snapshots, short of the breakpoint.
RunUntilBreakAtLimit ==
  /\ RanUntilBreak
  /\ program = <<"bf", "+++.">>
  /\ call.args = <<2>>
  /\ ReturnedPcs = <<1, 2>>
  /\ session.breakpoints = {3}
  /\ session.hit_breakpoint = NoBreakpoint
  /\ ~session.finished

\* The last elements of a list, at most `length` of them.
Newest(items, length) == SubSeq(items, max(1, Len(items) - length + 1), Len(items))

\* history is never empty nor longer than history_limit, and its last
\* element is last_state.
HistoryBounded ==
  /\ Len(session.history) >= 1
  /\ Len(session.history) <= session.history_limit
  /\ session.history[Len(session.history)] = session.last_state

\* An operation that returns appends the snapshots it records to history,
\* in the order it takes them, and the oldest entries are dropped:
\* step_forward and run_until_break record what they return, restart records
\* the new initial snapshot, a breakpoint edit records nothing.
HistoryRecords ==
  LET recorded ==
        IF call'.op \in {"step_forward", "run_until_break"} THEN call'.returned
        ELSE IF call'.op = "restart" THEN <<_initial_state(Env)>>
        ELSE << >>
  IN  call'.raised = "" /\ call'.op # "reset" =>
        session'.history = Newest(session.history \o recorded, session.history_limit)

\* C18: after any sequence of session operations on a session with
\* history_limit >= 1, len(history) <= history_limit, history holds the most
\* recently recorded snapshots in the order they were recorded (the oldest
\* are dropped first), and the last element of history is last_state.
HistoryIsBoundedRing == []HistoryBounded /\ [][HistoryRecords]_vars

\* A full history of MaxHistory snapshots that has dropped the initial one.
HistoryDroppedOldest ==
  /\ session.history_limit = MaxHistory
  /\ Len(session.history) = MaxHistory
  /\ session.history[1].step = 1
  /\ call.op = "step_forward"

\* The snapshot the stepper yields after the last instruction.
TerminalSnapshot(state) ==
  state.command = NoCommand /\ state.pc >= StepLocals[program].code_length

\* The operation taken is step_forward or run_until_break.
Stepping == call'.op \in {"step_forward", "run_until_break"}

\* The operation taken returns the terminal snapshot: the session is finished.
FinishedAtTerminalSnapshot ==
  Stepping /\ call'.returned # << >>
      /\ TerminalSnapshot(call'.returned[Len(call'.returned)])
    => session'.finished

\* Only restart, or the reset of the store that calls it, ends finished.
FinishedUntilRestart ==
  session.finished /\ call'.op \notin {"restart", "reset"} => session'.finished

\* A finished session steps no further.
FinishedStepsNowhere ==
  session.finished /\ Stepping =>
    /\ call'.returned = << >>
    /\ call'.raised = ""
    /\ session'.last_state = session.last_state
    /\ session'.history = session.history

\* C19: finished becomes true when the terminal snapshot is taken and stays
\* true until restart; while finished, step_forward and run_until_break
\* return no snapshots and leave last_state and history unchanged.
FinishedLatches ==
  [][FinishedAtTerminalSnapshot /\ FinishedUntilRestart /\ FinishedStepsNowhere]_vars

\* step_forward(MaxCount) on a session that has taken the terminal snapshot
\* of +++. has returned nothing.
SteppedWhileFinished ==
  /\ program = <<"bf", "+++.">>
  /\ call.op = "step_forward"
  /\ call.args = <<MaxCount>>
  /\ call.returned = << >>
  /\ session.finished
  /\ TerminalSnapshot(session.last_state)
  /\ session.last_state.step = 4

\* C20: resetting a session through the session store (SessionStore.reset,
\* used by the /reset endpoint) leaves the session with an empty breakpoint
\* set, whatever breakpoints were set before the reset.
ResetClearsBreakpoints == call.op = "reset" => session.breakpoints = {}

(***************************************************************************)
(* Properties of the optimizer                                             *)
(***************************************************************************)
\* Bound of the run that the interpreter's run is compared with.
MaxFuel == 32

\* The run of the optimizer's output for the program of this behaviour, on
\* the same input and without a budget, for at most `fuel` instructions.
Optimized(fuel) ==
  LET from(l) ==
        unbudgeted(l, input_data,
                   [machine |-> [tape |-> << >>, pointer |-> 0, output_buffer |-> << >>,
                                 input_iter |-> 0, new_pc |-> 0, error |-> ""],
                    pc |-> 0, steps |-> 0,
                    status |-> IF l.jump_map.ok THEN "running" ELSE "ValueError"],
                   fuel)
  IN  from(OptimizedLocals[program])

\* C21: for every balanced program p and every input, _optimize_code(p)
\* behaves on the interpreter as p does, with no step limit: when the run of
\* p has ended (normally or because the pointer left the tape), the run of
\* _optimize_code(p) ends in the same way with the same output, and when the
\* run of p never ends, neither does the run of _optimize_code(p).
OptimizerKeepsBehaviour ==
  LET alike(other) ==
        /\ Ended /\ steps <= MaxFuel =>
              /\ other.status \in {"running", status}
              /\ other.status = status => other.machine.output_buffer = output_buffer
        /\ steps = StepCap => other.status = "running"
  IN  alike(Optimized(MaxFuel))

\* C22: _optimize_code(_optimize_code(c)) = _optimize_code(c) for every
\* string c of commands and for every stream the generator emits: a call on
\* what the optimizer has returned returns it unchanged.
OptimizerIsIdempotent ==
  [][call.op = "_optimize_code" => call'.returned = call.returned]_vars

(***************************************************************************)
(* Properties of transpile                                                 *)
(***************************************************************************)
\* The number of characters ch among the first k characters of code.
Count(code, ch, k) == Cardinality({i \in 1..k : code[i] = ch})

\* Every prefix has at least as many `[` as `]`, and the totals are equal.
Balanced(code) ==
  /\ \A k \in 1..Len(code) :
        code[k] = "]" => Count(code, "[", k) >= Count(code, "]", k)
  /\ Count(code, "[", Len(code)) = Count(code, "]", Len(code))

\* C23: for every source program that transpile accepts, the returned string
\* contains only the eight characters + - < > . , [ ] and its brackets are
\* balanced, so that the preflight of the interpreter does not reject it.
TranspiledIsBrainfuck ==
  call.op = "transpile" /\ call.raised = "" =>
    \E code \in {call.returned[1]} :
      /\ \A i \in 1..Len(code) : code[i] \in Commands
      /\ Balanced(code)
      /\ _build_jump_map(code).ok

\* transpile has accepted a program with an `if`, an `else` and loops.
TranspiledAnIf ==
  /\ program = <<"if", "count", "print_b">>
  /\ call.op = "transpile"
  /\ call.raised = ""
  /\ Count(call.returned[1], "[", Len(call.returned[1])) > 2

\* The type rules, for the statement of a program of TypedPrograms.  n is a
\* num variable, c a char variable, u is not declared; `let` declares its
\* variable before it looks up its value.
TypeOf(name) == IF name = "n" THEN NUM ELSE IF name = "c" THEN CHAR ELSE ""

NamesUndeclared(kind, name, operand) ==
  IF kind \in {"let_num", "let_char"}
  THEN operand = "u" /\ name # "u"
  ELSE name = "u" \/ operand = "u"

WrongType(kind, name) ==
  \/ kind = "print_char" /\ TypeOf(name) = NUM
  \/ kind \in {"print_num", "print_dec"} /\ TypeOf(name) = CHAR
  \/ kind = "div" /\ TypeOf(name) = CHAR
  \/ kind = "input_char" /\ TypeOf(name) = NUM
  \/ kind = "input_num" /\ TypeOf(name) = CHAR

Redeclared(kind, name) ==
  \/ kind = "let_num" /\ TypeOf(name) = CHAR
  \/ kind = "let_char" /\ TypeOf(name) = NUM

RECURSIVE Nested(_, _, _, _)
Nested(lines, i, open, closed) ==
  IF i > Len(lines) THEN open = << >>
  ELSE IF lines[i] = <<"}">>
  THEN open # << >> /\ Nested(lines, i + 1, SubSeq(open, 1, Len(open) - 1), open[Len(open)])
  ELSE IF lines[i] = <<"else", "{">>
  THEN closed = "if" /\ Nested(lines, i + 1, Append(open, "else"), "")
  ELSE IF lines[i][1] \in {"if", "for"}
  THEN Nested(lines, i + 1, Append(open, lines[i][1]), "")
  ELSE Nested(lines, i + 1, open, "")

WellNested(lines) == Nested(lines, 1, << >>, "")

\* The lines of a list of statements: each block between its opening line
\* and a `}`, an else block right after the `}` of its if.
RECURSIVE Unparsed(_)
Unparsed(statements) ==
  LET s == Head(statements)
      own ==
        IF s.kind = "If"
        THEN <<<<"if">> \o s.condition \o <<"{">>>> \o Unparsed(s.true_block) \o <<<<"}">>>>
             \o (IF s.else_block
                 THEN <<<<"else", "{">>>> \o Unparsed(s.false_block) \o <<<<"}">>>>
                 ELSE << >>)
        ELSE IF s.kind = "For"
        THEN <<<<"for", s.name, "from", "0", "to", "1", "{">>>> \o Unparsed(s.body) \o <<<<"}">>>>
        ELSE <<<<"add", s.name, "1">>>>
  IN  IF statements = << >> THEN << >> ELSE own \o Unparsed(Tail(statements))

\* C25: the parser accepts a sequence of lines exactly when its blocks are
\* well nested and raises ParseError otherwise; the statements it returns
\* have the lines it was given, every `}` closing the innermost open block
\* and every else block following the `}` of its if.
ParserNestsBlocks ==
  call.op = "parse" =>
    /\ call.raised = "" <=> WellNested(call.args[1])
    /\ call.raised \in {"", "ParseError"}
    /\ call.raised = "" => Unparsed(call.returned[1]) = call.args[1]

\* An if inside an if, the else block attached to the outer one.
ParsedNestedElse ==
  /\ call.op = "parse"
  /\ call.raised = ""
  /\ call.args[1] = <<<<"if", "f", "{">>, <<"if", "f", "{">>, <<"}">>, <<"}">>,
                      <<"else", "{">>, <<"}">>>>
  /\ Len(call.returned[1]) = 1
  /\ call.returned[1][1].else_block
  /\ ~call.returned[1][1].true_block[1].else_block

\* A token of decimal digits
DecimalToken(token) == token # << >> /\ \A i \in 1..Len(token) : token[i] \in DecimalDigits

\* A decimal token is accepted exactly when its value is in 0..255 and is
\* rejected with ParseError otherwise.
DecimalInRange ==
  call.op = "_parse_expr" /\ DecimalToken(call.args[1]) =>
    /\ call.raised = "" <=> int(call.args[1]) \in 0..255
    /\ call.raised \in {"", "ParseError"}
    /\ call.raised = "" => call.returned[1] = NumberLiteral(int(call.args[1]))

\* C30: every number literal and every character literal that _parse_expr
\* returns has a value in 0..255, a decimal token being accepted exactly when
\* its value is in that range.
LiteralsAreBytes ==
  /\ DecimalInRange
  /\ call.op = "_parse_expr" /\ call.raised = ""
       /\ call.returned[1].kind \in {"NumberLiteral", "CharLiteral"}
     => call.returned[1].value \in 0..255

(***************************************************************************)
(* Properties of `if`: the condition variable.                             *)
(***************************************************************************)
\* C27: when the program ending in `if f { A }` or `if f { A } else { B }`
\* has run, A and B not assigning f, the variable f holds the value that was
\* read into it before the if.
IfKeepsCondition == Done => var("f") = input_data[1]

\* An if with an else block has run on a condition of 255.
IfRanOnLargest ==
  /\ Done
  /\ program = <<"if", "copy_print_a", "print_b">>
  /\ input_data = <<255>>
  /\ var("f") = 255
  /\ output_buffer # << >>

(***************************************************************************)
(* Properties of the session: counts that are not positive.                *)
(***************************************************************************)
\* C28: step_forward(n) with n <= 0 returns an empty list and changes
\* nothing: last_state, history, finished, hit_breakpoint, the breakpoints
\* and the position of the underlying stepper are as before the call.
StepForwardOfNothing ==
  [][call'.op = "step_forward" /\ call'.args[1] <= 0 =>
       /\ call'.returned = << >>
       /\ call'.raised = ""
       /\ session' = session
       /\ UNCHANGED <<tape, pointer, output_buffer, input_iter, pc, steps, status,
                      snapshot, yielded>>]_vars

\* step_forward(-1) and step_forward(0) have returned in a session stopped
\* at a breakpoint, with a history.
SteppedByNothing ==
  /\ call.op = "step_forward"
  /\ call.args[1] <= 0
  /\ session.hit_breakpoint # NoBreakpoint
  /\ session.history # << >>
  /\ ~session.finished

(***************************************************************************)
(* Properties of run and step: the output.                                 *)
(***************************************************************************)
\* The output of the snapshot yielded last, empty before the first one.
Output(state) == IF state = NoState THEN << >> ELSE state.output

\* C29: on a balanced program with empty input and no step limit, the output
\* of every snapshot of step is the output of the snapshot before it, with
\* one more character exactly when the instruction executed is `.`; when
\* step is exhausted the output of the terminal snapshot is output_buffer,
\* whose characters run returns.
RunIsStepOutput ==
  /\ [](input_data = << >> /\ max_steps = NoLimit /\ Done =>
         /\ snapshot.command = NoCommand
         /\ snapshot.output = output_buffer)
  /\ [][input_data = << >> /\ max_steps = NoLimit /\ snapshot' # snapshot =>
           /\ Len(snapshot'.output) =
                IF snapshot'.command = "." THEN Len(Output(snapshot)) + 1
                ELSE Len(Output(snapshot))
           /\ SubSeq(snapshot'.output, 1, Len(Output(snapshot))) = Output(snapshot)
           /\ snapshot'.output = output_buffer']_vars

\* run has returned the three characters that the loop and the last
\* instruction of ++[.-]. have written.
RunReturnedLoopOutput ==
  /\ Done
  /\ input_data = << >>
  /\ max_steps = NoLimit
  /\ program = <<"bf", "++[.-].">>
  /\ output_buffer = <<2, 1, 0>>
  /\ snapshot.output = <<2, 1, 0>>

(***************************************************************************)
(* Properties of the session registry.                                     *)
(***************************************************************************)
\* The request r has begun to change the session and has not finished.
Mutating(r) == requests[r].at \in {"cleared", "unmarked", "stepping"}

\* C26: the requests on one session id are serialized: no two of them are
\* in the middle of changing the session at once, and between the
\* history.clear() of a reset and its restart no other request records a
\* snapshot, the history staying empty.
RequestsAreSerialized ==
  /\ \A r, q \in Requests : r # q => ~(Mutating(r) /\ Mutating(q))
  /\ \A r \in Requests :
       requests[r].at \in {"cleared", "unmarked"} => session.history = << >>

(***************************************************************************)
(* Properties of the preflight of step.                                    *)
(***************************************************************************)
\* The number of characters ch of code at the positions from..to.
Between(code, ch, from, to) == Cardinality({i \in from..to : code[i] = ch})

\* The `]` that closes the `[` at position i of a balanced code: the first
\* position after i up to which as many `]` as `[` have been read from i on.
Partner(code, i) ==
  CHOOSE j \in (i + 1)..Len(code) :
    /\ Between(code, "[", i, j) = Between(code, "]", i, j)
    /\ \A k \in (i + 1)..(j - 1) : Between(code, "[", i, k) > Between(code, "]", i, k)

\* map is the jump table of the balanced code: every `[` has its closing `]`
\* and every `]` the `[` it closes; other characters have no entry.
JumpTable(code, map) ==
  /\ Len(map) = Len(code)
  /\ \A i \in 1..Len(code) :
        /\ code[i] = "[" => map[i] = Partner(code, i) /\ map[map[i]] = i
        /\ code[i] = "]" => map[i] \in 1..(i - 1) /\ code[map[i]] = "["
                               /\ Partner(code, map[i]) = i
        /\ code[i] \notin {"[", "]"} => map[i] = 0

\* C31: on a code with an unmatched bracket the first pull of step ends with
\* ValueError, nothing executed and no snapshot yielded, and on no other
\* code; _build_jump_map raises on the same codes and for a balanced code
\* returns the table of the matching brackets.
PreflightRejectsUnbalanced ==
  /\ status # "created" => (status = "ValueError" <=> ~Balanced(Code(program)))
  /\ status = "ValueError" =>
        /\ steps = 0 /\ yielded = 0 /\ snapshot = NoState /\ pc = 0
        /\ tape = << >> /\ pointer = 0 /\ output_buffer = << >>
  /\ call.op = "_build_jump_map" =>
        /\ call.raised = "ValueError" <=> ~Balanced(call.args[1])
        /\ call.raised \in {"", "ValueError"}
        /\ call.raised = "" => JumpTable(call.args[1], call.returned[1])

\* The first pull has failed on a code whose inner loop is closed and whose
\* outer one is not, with a budget of no steps.
PreflightFailed ==
  /\ status = "ValueError"
  /\ max_steps = 0
  /\ Code(program) = <<"[", "[", "]">>
  /\ call.raised = "ValueError"

\* The table of two loops, the first with a loop inside.
NestedJumpTable ==
  /\ call.op = "_build_jump_map"
  /\ call.args[1] = <<"[", "[", "]", "]", "[", "]">>
  /\ call.returned[1] = <<4, 3, 2, 1, 6, 5>>

(***************************************************************************)
(* Properties of the generator state.                                      *)
(***************************************************************************)
\* The statement that the last call of _emit_statement has emitted, and the
\* generator state it has left.
Emitted == Source(program)[call.args[1]]

Left == call.returned[1]

\* C32: when _emit_statement has returned, whatever the statement, the
\* generator-time pointer is 0.
PointerAtHome ==
  call.op = "_emit_statement" /\ call.raised = "" => Left.pointer = 0

\* The same for every statement other than a div by a literal.
PointerAtHomeButDivLiteral ==
  call.op = "_emit_statement" /\ call.raised = ""
    /\ ~(Emitted.kind = "Div" /\ Emitted.expr.kind # "Identifier")
  => Left.pointer = 0

(***************************************************************************)
(* Properties of the tape of the emitted programs.                         *)
(***************************************************************************)
\* The cells the generator has given to the variables of the program.
VariableCells ==
  {Generated[program].cell_map[name] : name \in DOMAIN Generated[program].cell_map}

\* C33: when the emitted program has run to its end, that is when the code of
\* its last top-level statement has finished, every cell that holds a value
\* other than 0 is the cell of a variable: cell 0, the temporaries 1 and 2
\* and every allocated scratch cell hold 0, whatever the variables held.
ScratchCellsAreZero == Done => DOMAIN tape \subseteq VariableCells

\* A division has finished with a quotient and a remainder left in the
\* variables, after _subtract_divisor_if_possible has failed once.
DivLeftScratchClear ==
  /\ Done
  /\ program = <<"div", "x", "y">>
  /\ input_data = <<7, 3>>
  /\ var("x") = 2
  /\ var("y") = 3

(***************************************************************************)
(* Properties of the optimized stream.                                     *)
(***************************************************************************)
\* The characters i..j of code are a clear loop: the body uses only + - < >,
\* returns the pointer to the entry cell, decrements the entry cell at least
\* once and never increments it.
ClearLoop(code, i, j) ==
  /\ i < j
  /\ code[i] = "["
  /\ code[j] = "]"
  /\ _is_clear_loop(SubSeq(code, i + 1, j - 1))

\* The clear loop i..j is followed at once by an identical one.
Doubled(code, i, j) ==
  /\ ClearLoop(code, i, j)
  /\ 2 * j - i + 1 <= Len(code)
  /\ SubSeq(code, j + 1, 2 * j - i + 1) = SubSeq(code, i, j)

\* Where a doubled clear loop starts: its body has no bracket, so it ends at
\* the first bracket after its `[`.
DoubledClearLoops(code) ==
  {i \in {k \in 1..Len(code) : code[k] = "["} :
     \E j \in (i + 1)..Len(code) :
       /\ code[j] = "]"
       /\ \A k \in (i + 1)..(j - 1) : code[k] \notin {"[", "]"}
       /\ Doubled(code, i, j)}

\* The loops of a balanced code that enclose position i.
Enclosing(code, i) ==
  {k \in 1..(i - 1) : code[k] = "[" /\ _build_bracket_map(code).map[k] > i}

\* C34: in what _optimize_code returns, called by itself or at the end of
\* transpile, no clear loop is followed at once by an identical clear loop,
\* at any nesting depth.
NoAdjacentClearLoops ==
  call.op \in {"_optimize_code", "transpile"} /\ call.raised = "" =>
    DoubledClearLoops(call.returned[1]) = {}

\* The same for the clear loops outside every other loop of a code with
\* balanced brackets.
NoAdjacentClearLoopsOutside ==
  call.op \in {"_optimize_code", "transpile"} /\ call.raised = ""
    /\ _build_bracket_map(call.returned[1]).ok =>
    \A i \in DoubledClearLoops(call.returned[1]) : Enclosing(call.returned[1], i) # {}

(***************************************************************************)
(* The generator-time pointer.  state.pointer is written by _move_to only, *)
(* which emits one `>` or `<` for every cell it moves, and no other method *)
(* emits `>` or `<`: the pointer the generator assumes at an instruction   *)
(* is the number of `>` less the number of `<` before it in the stream.    *)
(***************************************************************************)
\* The assumed pointer after each instruction of code.
Travel(code) ==
  IF code = << >> THEN << >>
  ELSE depth_levels(
         [k \in 1..Len(code) |->
            <<IF code[k] = ">" THEN 1 ELSE IF code[k] = "<" THEN -1 ELSE 0>>] \o << >>)

\* The assumed pointer at the instruction with the 0-based index at.
AssumedAt(travel, at) == IF at = 0 THEN 0 ELSE travel[at]

Assumed == [key \in ProgramKeys |-> Travel(Transpiled[key].code)]

\* At every `]` of the code the assumed pointer is the one at its matching
\* `[`.
LoopsReturn(code) ==
  LET returns(travel, map) ==
        \A i \in 1..Len(code) :
          code[i] = "]" => AssumedAt(travel, i - 1) = AssumedAt(travel, map[i] - 1)
  IN  returns(Travel(code), _build_jump_map(code).map)

Returning == [key \in ProgramKeys |-> LoopsReturn(Transpiled[key].code)]

\* C35: in the emitted program the generator-time pointer at each `]` is the
\* one at its matching `[`, and whenever the interpreter is about to execute
\* an instruction, or has left the program, its pointer is the one the
\* generator assumed there.
PointerAsAssumed ==
  /\ Returning[program]
  /\ status \in {"running", "done"} => pointer = AssumedAt(Assumed[program], pc)

\* The loop of a `for` has been repeated and left: the run has ended after
\* the body has run twice.
ForLoopRepeated ==
  /\ Done
  /\ program = <<"for", "count">>
  /\ input_data = <<0, 2>>
  /\ var("n") = 2
  /\ pointer = 0

\* In the generator: when _emit_statement has returned, state.pointer is the
\* number of `>` less the number of `<` in the stream emitted so far.
PointerIsTravel ==
  call.op = "_emit_statement" /\ call.raised = "" =>
    Left.pointer = AssumedAt(Travel(Left.output), Len(Left.output))

(***************************************************************************)
(* Properties of the tape layout.                                          *)
(***************************************************************************)
Cells(state) == {state.cell_map[name] : name \in DOMAIN state.cell_map}

\* A scratch cell has been handed out, by _get_scratch_cell or _allocate_cell.
HandedOut == call.op \in {"_get_scratch_cell", "_allocate_cell"}

\* The layout of a generator state: no two variables share a cell, every
\* variable has a type and a cell from 3 on that has been allocated.
Layout(state) ==
  /\ \A a, b \in DOMAIN state.cell_map : state.cell_map[a] = state.cell_map[b] => a = b
  /\ DOMAIN state.var_types = DOMAIN state.cell_map
  /\ \A name \in DOMAIN state.cell_map : state.cell_map[name] \in 3..(state.next_cell - 1)

\* One call on the generator state: the variables keep their cells and their
\* types, next_cell does not decrease, _ensure_cell on a declared variable
\* with its type returns its cell and neither allocates nor emits, and a
\* scratch cell handed out is not the cell of a variable.
LayoutKept ==
  call.op # "" /\ call'.op # "" =>
    /\ Layout(Left')
    /\ \A name \in DOMAIN Left.cell_map :
         /\ name \in DOMAIN Left'.cell_map
         /\ Left'.cell_map[name] = Left.cell_map[name]
         /\ Left'.var_types[name] = Left.var_types[name]
    /\ Left'.next_cell >= Left.next_cell
    /\ call'.op = "_ensure_cell" /\ call'.raised = "" /\ declared(call'.args[2], Left) =>
         /\ call'.returned[2] = Left.cell_map[call'.args[2]]
         /\ Left' = Left
    /\ HandedOut' => call'.returned[2] \notin Cells(Left')

\* A scratch cell handed out right after another one is a different cell.
HandedOutOnce ==
  HandedOut /\ HandedOut' => call'.returned[2] # call.returned[2]

\* A scratch cell handed out is one of the two reserved temporaries, or a
\* cell that no call before has handed out or given to a variable.
HandedOutOnceOrReserved ==
  HandedOut' =>
    \/ call'.returned[2] \in {Left.temp_a, Left.temp_b}
    \/ call'.returned[2] >= Left.next_cell /\ Left'.next_cell > call'.returned[2]

\* C36: throughout code generation cell_map is injective, the cells of the
\* variables are 3 or more, a variable keeps its cell and its type, declaring
\* it again with its type returns its cell and allocates nothing, a scratch
\* cell is never the cell of a variable nor handed out twice, and next_cell
\* never decreases.
LayoutIsPermanent == [][LayoutKept /\ HandedOutOnce]_vars

\* The same with the two reserved temporaries handed out again and again.
LayoutIsPermanentButReserved == [][LayoutKept /\ HandedOutOnceOrReserved]_vars

(***************************************************************************)
(* The run-time pointer and the cells the generator has allocated.         *)
(***************************************************************************)
\* C37: while the emitted program runs, the pointer is at least 0 and at
\* most next_cell - 1, the last cell the generator has allocated for the
\* program, and the run never ends with the pointer out of range.
PointerInAllocated ==
  /\ pointer \in 0..(Generated[program].next_cell - 1)
  /\ status # "IndexError"

\* The run of a division is at the last cell the generator has allocated.
PointerAtLastAllocated ==
  /\ status = "running"
  /\ program = <<"div", "x", "y">>
  /\ steps > 0
  /\ pointer = Generated[program].next_cell - 1
  /\ Generated[program].next_cell < tape_length

(***************************************************************************)
(* The step budget in a debug session.                                     *)
(***************************************************************************)
\* The operation taken is step_forward or run_until_break and has raised
\* StepLimitExceeded.
LimitRaised == Stepping /\ call'.raised = "StepLimitExceeded"

\* The session is then finished, and last_state and the end of history are
\* the last snapshot the generator has yielded (the initial snapshot when it
\* has yielded none); the operation returns nothing.
StepLimitFinishes ==
  LimitRaised =>
    /\ session'.finished
    /\ status' = "StepLimitExceeded"
    /\ call'.returned = << >>
    /\ session'.history # << >>
    /\ session'.last_state = session'.history[Len(session'.history)]
    /\ session'.last_state = IF snapshot' = NoState THEN _initial_state(Env) ELSE snapshot'
    /\ session'.last_state.step = steps'
    /\ session'.last_state.pc = pc'

\* After that, step_forward and run_until_break return nothing, raise
\* nothing and leave the session as it is; restart and reset alone end this.
StepLimitLatches ==
  /\ status = "StepLimitExceeded" /\ Stepping =>
       /\ call'.returned = << >>
       /\ call'.raised = ""
       /\ session'.finished
       /\ session'.last_state = session.last_state
       /\ session'.history = session.history
       /\ status' = status
  /\ status = "StepLimitExceeded" /\ status' # status => call'.op \in {"restart", "reset"}

\* C38: when step_forward or run_until_break raises StepLimitExceeded the
\* session becomes finished, with last_state and history at the last
\* snapshot taken; every later step_forward or run_until_break returns no
\* snapshots and does not raise, until restart.
StepLimitEndsSession == [][StepLimitFinishes /\ StepLimitLatches]_vars

\* run_until_break on the session of +[] that has run out of its budget of
\* one step has returned nothing.
SteppedAfterStepLimit ==
  /\ program = <<"bf", "+[]">>
  /\ max_steps = 1
  /\ status = "StepLimitExceeded"
  /\ call.op = "run_until_break"
  /\ call.raised = ""
  /\ call.returned = << >>
  /\ session.finished
  /\ session.last_state.step = 1

(***************************************************************************)
(* Breakpoints and the snapshots they are compared with.                   *)
(***************************************************************************)
\* What the operation taken would have done without a breakpoint at the
\* initial pc 0.
WithoutBreakpointAtStart ==
  LET s == [Session EXCEPT !.session.breakpoints = @ \ {0}]
  IN  IF call'.op = "step_forward" THEN step_forward(Env, s, call'.args[1])
      ELSE run_until_break(Env, s, call'.args[1])

\* The operation taken is not step_forward with a count of 0 or less, which
\* returns at once and leaves hit_breakpoint as it was.
Counted == ~(call'.op = "step_forward" /\ call'.args[1] <= 0)

\* The snapshots of an operation that has returned: a snapshot taken after
\* an instruction has a pc of 1 or more; hit_breakpoint is never 0 and is set
\* only to the pc of the last snapshot, taken after an instruction; a terminal
\* snapshot ends the operation with finished set and hit_breakpoint none;
\* and a breakpoint at 0 changes nothing in what the operation returns and
\* leaves behind.
BreakpointsMeetStepped ==
  LET met(r, without) ==
        /\ \A i \in 1..Len(r) : AfterInstruction(r[i]) => r[i].pc >= 1
        /\ session'.hit_breakpoint # 0
        /\ session'.hit_breakpoint # NoBreakpoint /\ Counted =>
             /\ r # << >>
             /\ AfterInstruction(r[Len(r)])
             /\ r[Len(r)].pc = session'.hit_breakpoint
             /\ session'.hit_breakpoint \in session.breakpoints
        /\ r # << >> /\ TerminalSnapshot(r[Len(r)]) =>
             /\ session'.hit_breakpoint = NoBreakpoint
             /\ session'.finished
        /\ r = without.returned
        /\ session' = [without.session EXCEPT !.breakpoints = session.breakpoints]
        /\ call'.raised = without.raised
  IN  Stepping => met(call'.returned, WithoutBreakpointAtStart)

\* C39: breakpoints are compared only with the pc of the snapshots taken
\* after an instruction: a breakpoint at pc 0 never stops execution, and the
\* terminal snapshot is never a breakpoint hit, also when its pc is in
\* breakpoints.
BreakpointsMeetSteppedPcs == [][BreakpointsMeetStepped]_vars

\* run_until_break on the program + with breakpoints at 0 and at 1 has
\* returned the terminal snapshot alone, with pc 1: the session is finished
\* and no breakpoint is hit.
TerminalSnapshotAtBreakpoint ==
  /\ program = <<"bf", "+">>
  /\ session.breakpoints = {0, 1}
  /\ call.op = "run_until_break"
  /\ Len(call.returned) = 1
  /\ TerminalSnapshot(call.returned[1])
  /\ call.returned[1].pc = 1
  /\ session.finished
  /\ session.hit_breakpoint = NoBreakpoint

(***************************************************************************)
(* The scaled increment.                                                   *)
(***************************************************************************)
\* The loop counts of an increment of magnitude m, and the cost of the
\* scaled loop with loop count L at distance d from the scratch cell.
LoopCounts(m) == 2..Min(16, m)

Step(m, L) == m \div L

Remainder(m, L) == m - L * Step(m, L)

Cost(m, d, L) == L + Step(m, L) + Remainder(m, L) + 4 * d + 5

\* The scaled loop is worth emitting.
Cheaper(m, d) == \E L \in LoopCounts(m) : Cost(m, d, L) < m

\* p is a pattern of least cost for the magnitude m at distance d.
LeastCost(p, m, d) ==
  /\ p.loop_count \in LoopCounts(m)
  /\ p.step = Step(m, p.loop_count)
  /\ p.remainder = Remainder(m, p.loop_count)
  /\ p.loop_count * p.step + p.remainder = m
  /\ p.cost = Cost(m, d, p.loop_count)
  /\ \A L \in LoopCounts(m) : p.cost <= Cost(m, d, L)

\* The moves from cell a to cell b.
Path(a, b) == IF b >= a THEN Repeat(">", b - a) ELSE Repeat("<", a - b)

\* The scaled loop with loop count L for the cell at its scratch cell,
\* emitted with the pointer at 0, and the single steps of a magnitude m.
ScaledLoop(cell, temp, op, m, L) ==
  Path(0, temp) \o <<"[", "-", "]">> \o Repeat("+", L)
    \o <<"[", "-">> \o Path(temp, cell) \o Repeat(op, Step(m, L))
    \o Path(cell, temp) \o <<"]">> \o Path(temp, cell) \o Repeat(op, Remainder(m, L))

SingleSteps(cell, op, m) == IF m = 0 THEN << >> ELSE Path(0, cell) \o Repeat(op, m)

Contains(code, text) ==
  \E i \in 0..(Len(code) - Len(text)) : SubSeq(code, i + 1, i + Len(text)) = text

\* C40: the scaled loop is emitted only when some loop count in
\* 2..min(16, m) has a cost below m, and then with a pattern of least cost
\* (L, step, remainder), for which L * step + remainder = m; otherwise m
\* single `+` or `-` are emitted.  `let num value = <literal>` has a `[->`
\* loop and fewer `+` than the literal whenever the loop is worth emitting
\* at the distance 2 of the first variable from temp_a, as it is for 200.
ScaledIncrementIsCheapest ==
  LET selected(m, d, p) ==
        /\ p.found <=> Cheaper(m, d)
        /\ p.found => LeastCost(p, m, d) /\ p.cost < m
      emitted(cell, temp, op, m, state) ==
        /\ state.error = ""
        /\ IF Cheaper(m, Abs(cell - temp))
           THEN \E L \in LoopCounts(m) :
                  /\ \A other \in LoopCounts(m) :
                       Cost(m, Abs(cell - temp), L) <= Cost(m, Abs(cell - temp), other)
                  /\ state.output = ScaledLoop(cell, temp, op, m, L)
           ELSE state.output = SingleSteps(cell, op, m)
      let(literal, code) ==
        /\ Cheaper(literal, 2) <=> Contains(code, <<"[", "-", ">">>)
        /\ Cheaper(literal, 2) => Occurrences(code, "+") < literal
        /\ ~Cheaper(literal, 2) => Occurrences(code, "+") = literal
        /\ literal = 200 => Cheaper(literal, 2)
  IN  /\ call.op = "_select_scaled_increment" =>
           selected(call.args[1], call.args[2], call.returned[1])
      /\ call.op = "_increment_cell" =>
           emitted(call.args[1], IF call.args[1] = 1 THEN 2 ELSE 1,
                   IF call.args[2] < 0 THEN "-" ELSE "+", Abs(call.args[2]),
                   call.returned[1])
      /\ call.op = "transpile" =>
           call.raised = "" /\ let(call.args[1], call.returned[1])

\* `let num value = 200` has been transpiled to a loop of 10 rounds of 20.
TranspiledLargeLiteral ==
  /\ call.op = "transpile"
  /\ call.args = <<200>>
  /\ Contains(call.returned[1], <<"[", "-", ">", ">">> \o Repeat("+", 20) \o <<"<", "<", "]">>)
  /\ Occurrences(call.returned[1], "+") = 30
====
